---- MODULE Spec2Model ----
(***************************************************************************)
(* Model of the nghttp3 Ruby binding (ext/nghttp3): the Connection object  *)
(* of nghttp3_connection.c, its body-source callback read_data_callback,   *)
(* and the error mapping of nghttp3.c.                                     *)
(*                                                                         *)
(* The wrapped engine (the nghttp3_conn_* functions) is not part of the    *)
(* binding's sources.  Its observable behaviour is modelled by the         *)
(* operators named nghttp3_conn_*, from the engine contract of the         *)
(* specification (sections 4.4 and 8); the binding's own functions are     *)
(* the operators named rb_nghttp3_connection_* and read_data_callback.     *)
(***************************************************************************)
EXTENDS Integers, Sequences, FiniteSets, TLC

(* ------------------------------- bounds -------------------------------- *)
\* Largest length of a body string (fixed body or Proc result).
MaxBodyLen == 1
\* Cap on the number of chunks kept in one stream's pending_data array.
MaxPending == 1
\* Cap on a stream's write offset.
MaxOffset == 1

\* The transport stream the model's caller works on.
StreamIds == {0}

(* --------------------------- engine error codes ------------------------ *)
NGHTTP3_ERR_INVALID_ARGUMENT == -101
NGHTTP3_ERR_INVALID_STATE == -102
NGHTTP3_ERR_WOULDBLOCK == -103
NGHTTP3_ERR_STREAM_IN_USE == -104
NGHTTP3_ERR_MALFORMED_HTTP_HEADER == -105
NGHTTP3_ERR_MALFORMED_HTTP_MESSAGING == -107
NGHTTP3_ERR_QPACK_FATAL == -108
NGHTTP3_ERR_QPACK_HEADER_TOO_LARGE == -109
NGHTTP3_ERR_STREAM_NOT_FOUND == -110
NGHTTP3_ERR_CONN_CLOSING == -111
NGHTTP3_ERR_STREAM_DATA_OVERFLOW == -112
NGHTTP3_ERR_FATAL == -500
NGHTTP3_ERR_NOMEM == -501
NGHTTP3_ERR_CALLBACK_FAILURE == -502

\* nghttp3_err_is_fatal of the wrapped library: the codes below
\* NGHTTP3_ERR_FATAL are the fatal ones.
nghttp3_err_is_fatal(error_code) == error_code <= NGHTTP3_ERR_FATAL

\* Faulty variant of nghttp3_rb_error_class_for_code: the case of
\* NGHTTP3_ERR_CALLBACK_FAILURE is missing, so the code falls to the default
\* branch.  C25 must fail on it.
nghttp3_rb_error_class_for_code_no_callback_case(error_code) ==
  CASE error_code = NGHTTP3_ERR_INVALID_ARGUMENT -> "InvalidArgumentError"
    [] error_code = NGHTTP3_ERR_INVALID_STATE -> "InvalidStateError"
    [] error_code = NGHTTP3_ERR_WOULDBLOCK -> "WouldBlockError"
    [] error_code = NGHTTP3_ERR_STREAM_IN_USE -> "StreamInUseError"
    [] error_code = NGHTTP3_ERR_MALFORMED_HTTP_HEADER -> "MalformedHTTPHeaderError"
    [] error_code = NGHTTP3_ERR_MALFORMED_HTTP_MESSAGING -> "MalformedHTTPMessagingError"
    [] error_code = NGHTTP3_ERR_QPACK_FATAL -> "QPACKFatalError"
    [] error_code = NGHTTP3_ERR_QPACK_HEADER_TOO_LARGE -> "QPACKHeaderTooLargeError"
    [] error_code = NGHTTP3_ERR_STREAM_NOT_FOUND -> "StreamNotFoundError"
    [] error_code = NGHTTP3_ERR_CONN_CLOSING -> "ConnClosingError"
    [] error_code = NGHTTP3_ERR_STREAM_DATA_OVERFLOW -> "StreamDataOverflowError"
    [] error_code = NGHTTP3_ERR_NOMEM -> "NoMemError"
    [] OTHER -> IF nghttp3_err_is_fatal(error_code) THEN "FatalError" ELSE "Error"

\* Error class raised for an engine error code.
nghttp3_rb_error_class_for_code(error_code) ==
  CASE error_code = NGHTTP3_ERR_INVALID_ARGUMENT -> "InvalidArgumentError"
    [] error_code = NGHTTP3_ERR_INVALID_STATE -> "InvalidStateError"
    [] error_code = NGHTTP3_ERR_WOULDBLOCK -> "WouldBlockError"
    [] error_code = NGHTTP3_ERR_STREAM_IN_USE -> "StreamInUseError"
    [] error_code = NGHTTP3_ERR_MALFORMED_HTTP_HEADER -> "MalformedHTTPHeaderError"
    [] error_code = NGHTTP3_ERR_MALFORMED_HTTP_MESSAGING -> "MalformedHTTPMessagingError"
    [] error_code = NGHTTP3_ERR_QPACK_FATAL -> "QPACKFatalError"
    [] error_code = NGHTTP3_ERR_QPACK_HEADER_TOO_LARGE -> "QPACKHeaderTooLargeError"
    [] error_code = NGHTTP3_ERR_STREAM_NOT_FOUND -> "StreamNotFoundError"
    [] error_code = NGHTTP3_ERR_CONN_CLOSING -> "ConnClosingError"
    [] error_code = NGHTTP3_ERR_STREAM_DATA_OVERFLOW -> "StreamDataOverflowError"
    [] error_code = NGHTTP3_ERR_NOMEM -> "NoMemError"
    [] error_code = NGHTTP3_ERR_CALLBACK_FAILURE -> "CallbackFailureError"
    [] OTHER -> IF nghttp3_err_is_fatal(error_code) THEN "FatalError" ELSE "Error"

(* ------------------------------- values -------------------------------- *)
\* Ruby values that the model passes around, all records with a type field.
Qnil == [type |-> "nil"]
RString(n) == [type |-> "String", len |-> n]
RProc == [type |-> "Proc"]
RSymWouldblock == [type |-> "Symbol", sym |-> "wouldblock"]
NIL_P(v) == v.type = "nil"

\* No event was reported, no handler ran and none terminated abnormally.
NoApp == [events |-> <<>>, invoked |-> <<>>, aborted |-> FALSE]
\* A connection just created: one engine, not released.
ConnMemInit == [dels |-> 0, stale_use |-> FALSE, freed |-> FALSE]

\* No decode call is inside its read loop.
DecodeIdle ==
  [pc |-> "idle", len |-> 0, srclen |-> 0, fin |-> FALSE,
   total_consumed |-> 0, blocked |-> FALSE, iterations |-> 0]

\* Strings a caller or a body Proc can supply.
Strings == {RString(n) : n \in 1..MaxBodyLen}

VARIABLES
  conn,                 \* ConnectionObj.conn: "conn" (engine handle) or "NULL"
  is_closed,            \* ConnectionObj.is_closed
  is_server,            \* ConnectionObj.is_server
  stream_data_readers,  \* ConnectionObj.stream_data_readers: stream id -> String/Proc/nil
  stream_user_data,     \* ConnectionObj.stream_user_data: stream id -> value/nil
  pending_data,         \* ConnectionObj.pending_data: stream id -> array of Strings
  eng,                  \* state of the wrapped engine behind conn
  ret,                  \* the last public call: its name, the exception it
                        \* raised or "none", its value, what the body
                        \* callback answered, the byte count it was given
  EncoderObj,           \* a QPACK::Encoder: encoder, hard_max_dtable_capacity
  DecoderObj,           \* a QPACK::Decoder: decoder, stream_contexts,
                        \* hard_max_dtable_capacity, max_blocked_streams
  wire,                 \* what the caller holds between the two QPACK objects:
                        \* encoder-stream and decoder-stream bytes not yet
                        \* delivered, each stream's header block not yet decoded
  qret,                 \* the last public call on a QPACK object
  callbacks,            \* ConnectionObj.callbacks: nil, or the Callbacks object
                        \* with its handlers (CallbacksObj)
  app,                  \* the events the engine reported during the last
                        \* public call, the handlers they ran, and whether
                        \* a handler raised
  conn_mem,             \* the memory behind the Connection: how often
                        \* nghttp3_conn_del ran, whether the engine went on
                        \* using a released connection, whether ConnectionObj
                        \* was freed
  sctx_mem,             \* the memory of the decode cursors: the Integer
                        \* stored in stream_contexts for each stream, the
                        \* handles that are allocated, the values handed to
                        \* nghttp3_qpack_stream_context_del that were no
                        \* allocated handle, and whether DecoderObj was freed
  decoding              \* the read loop of a decode call taken one iteration
                        \* at a time: where the call is and its locals
                        \* srclen, fin, total_consumed and blocked

\* The Connection object and the engine behind it.
cvars == <<conn, is_closed, is_server, stream_data_readers, stream_user_data,
           pending_data, eng, ret, callbacks, app, conn_mem>>
\* The QPACK objects and the bytes between them.
qvars == <<EncoderObj, DecoderObj, wire, qret, sctx_mem, decoding>>

vars == <<conn, is_closed, is_server, stream_data_readers, stream_user_data,
          pending_data, eng, ret, EncoderObj, DecoderObj, wire, qret,
          callbacks, app, conn_mem, sctx_mem, decoding>>

(* --------------------------- wrapped engine ---------------------------- *)
\* Transport stream ids offered to bind_control_stream and, as
\* <<encoder, decoder>> pairs, to bind_qpack_streams.
ControlIds == {2, 14}
QpackIds == {<<6, 10>>, <<10, 6>>}
Unbound == <<>>

\* One stream of the engine: phase is "none" (no such stream), "open"
\* (created by inbound data, nothing submitted), "nobody" (message submitted
\* without a body source), "ready" (body source registered, to be pulled),
\* "rdblocked" (body source answered would-block) or "eof" (body ended);
\* wo/ao are the write and ack offsets; outq holds the body chunks the
\* engine was handed (it keeps pointers into them until they are acked).
\* Only body bytes are counted: header and frame bytes are left out.
NoStream == [phase |-> "none", wo |-> 0, ao |-> 0, outq |-> <<>>]
EngInit == [ctrl |-> Unbound, qpack |-> Unbound, traffic |-> FALSE,
            st |-> [s \in StreamIds |-> NoStream]]

\* Engine failures that do not depend on the call's arguments.
NoFailure == 0
Failures == {NoFailure, NGHTTP3_ERR_NOMEM}

\* nghttp3_conn_bind_control_stream: once, and before traffic.
nghttp3_conn_bind_control_stream(stream_id) ==
  IF eng.ctrl # Unbound \/ eng.traffic
    THEN [rv |-> NGHTTP3_ERR_INVALID_STATE, eng |-> eng]
    ELSE [rv |-> 0, eng |-> [eng EXCEPT !.ctrl = <<stream_id>>]]

\* Faulty variant of the engine's bind_qpack_streams: it binds again.  C4
\* must fail on it.
nghttp3_conn_bind_qpack_streams_rebind(enc_dec) ==
  [rv |-> 0, eng |-> [eng EXCEPT !.qpack = enc_dec]]

\* nghttp3_conn_bind_qpack_streams: once, and before traffic.
nghttp3_conn_bind_qpack_streams(enc_dec) ==
  IF eng.qpack # Unbound \/ eng.traffic
    THEN [rv |-> NGHTTP3_ERR_INVALID_STATE, eng |-> eng]
    ELSE [rv |-> 0, eng |-> [eng EXCEPT !.qpack = enc_dec]]

\* Faulty variant of the engine's submit_request: the bindings are not
\* checked.  C5 must fail on it.
nghttp3_conn_submit_request_unbound(stream_id, dr, failure) ==
  IF eng.st[stream_id].phase # "none"
    THEN [rv |-> NGHTTP3_ERR_STREAM_IN_USE, eng |-> eng]
  ELSE IF failure # NoFailure
    THEN [rv |-> failure, eng |-> eng]
  ELSE [rv |-> 0,
        eng |-> [eng EXCEPT !.traffic = TRUE,
                            !.st[stream_id].phase =
                               IF dr THEN "ready" ELSE "nobody"]]

\* nghttp3_conn_submit_request: needs the control and QPACK streams bound
\* and a stream id not in use; dr tells whether a data reader was passed.
nghttp3_conn_submit_request(stream_id, dr, failure) ==
  IF eng.ctrl = Unbound \/ eng.qpack = Unbound
    THEN [rv |-> NGHTTP3_ERR_INVALID_STATE, eng |-> eng]
  ELSE IF eng.st[stream_id].phase # "none"
    THEN [rv |-> NGHTTP3_ERR_STREAM_IN_USE, eng |-> eng]
  ELSE IF failure # NoFailure
    THEN [rv |-> failure, eng |-> eng]
  ELSE [rv |-> 0,
        eng |-> [eng EXCEPT !.traffic = TRUE,
                            !.st[stream_id].phase =
                               IF dr THEN "ready" ELSE "nobody"]]

\* nghttp3_conn_submit_response: needs the bindings and a stream opened by
\* the peer on which no response was submitted yet.
nghttp3_conn_submit_response(stream_id, dr, failure) ==
  IF eng.ctrl = Unbound \/ eng.qpack = Unbound
    THEN [rv |-> NGHTTP3_ERR_INVALID_STATE, eng |-> eng]
  ELSE IF eng.st[stream_id].phase = "none"
    THEN [rv |-> NGHTTP3_ERR_STREAM_NOT_FOUND, eng |-> eng]
  ELSE IF eng.st[stream_id].phase # "open"
    THEN [rv |-> NGHTTP3_ERR_INVALID_STATE, eng |-> eng]
  ELSE IF failure # NoFailure
    THEN [rv |-> failure, eng |-> eng]
  ELSE [rv |-> 0,
        eng |-> [eng EXCEPT !.traffic = TRUE,
                            !.st[stream_id].phase =
                               IF dr THEN "ready" ELSE "nobody"]]

\* nghttp3_conn_read_stream: inbound bytes open the stream if need be and
\* count as traffic; the result is the number of bytes consumed or an error.
nghttp3_conn_read_stream(stream_id, datalen, failure) ==
  IF failure # NoFailure
    THEN [rv |-> failure, eng |-> eng]
    ELSE [rv |-> datalen,
          eng |-> [eng EXCEPT !.traffic = TRUE,
                              !.st[stream_id].phase =
                                 IF @ = "none" THEN "open" ELSE @]]

\* nghttp3_conn_add_write_offset: n more bytes went to the transport.
nghttp3_conn_add_write_offset(stream_id, n, failure) ==
  IF eng.st[stream_id].phase = "none"
    THEN [rv |-> failure, eng |-> eng]
    ELSE [rv |-> 0, eng |-> [eng EXCEPT !.st[stream_id].wo = @ + n]]

\* Faulty variant of the engine's add_ack_offset: unwritten bytes can be
\* acknowledged.  C6 must fail on it.
nghttp3_conn_add_ack_offset_unchecked(stream_id, n, failure) ==
  IF eng.st[stream_id].phase = "none"
    THEN [rv |-> failure, eng |-> eng]
    ELSE [rv |-> 0, eng |-> [eng EXCEPT !.st[stream_id].ao = @ + n]]

\* nghttp3_conn_add_ack_offset: n more bytes were acknowledged; bytes that
\* were not written cannot be acknowledged.
nghttp3_conn_add_ack_offset(stream_id, n, failure) ==
  IF eng.st[stream_id].phase = "none"
    THEN [rv |-> failure, eng |-> eng]
  ELSE IF eng.st[stream_id].ao + n > eng.st[stream_id].wo
    THEN [rv |-> NGHTTP3_ERR_INVALID_ARGUMENT, eng |-> eng]
  ELSE [rv |-> 0, eng |-> [eng EXCEPT !.st[stream_id].ao = @ + n]]

\* nghttp3_conn_resume_stream: a stream whose body source answered
\* would-block is pulled again.
nghttp3_conn_resume_stream(stream_id) ==
  [rv |-> 0,
   eng |-> [eng EXCEPT !.st[stream_id].phase =
                          IF @ = "rdblocked" THEN "ready" ELSE @]]

\* nghttp3_conn_close_stream: the engine forgets the stream.
nghttp3_conn_close_stream(stream_id) ==
  IF eng.st[stream_id].phase = "none"
    THEN [rv |-> NGHTTP3_ERR_STREAM_NOT_FOUND, eng |-> eng]
    ELSE [rv |-> 0, eng |-> [eng EXCEPT !.st[stream_id] = NoStream]]

\* nghttp3_conn_is_stream_writable: a stream the engine knows is writable.
nghttp3_conn_is_stream_writable(stream_id) ==
  eng.st[stream_id].phase # "none"

\* The engine functions whose effect on the engine the model leaves out
\* (the transport's flow-control block, informational responses, trailers,
\* graceful shutdown): they succeed or fail.
nghttp3_conn_block_stream(stream_id) == eng
nghttp3_conn_unblock_stream(stream_id, failure) ==
  [rv |-> failure, eng |-> eng]
nghttp3_conn_shutdown_stream_write(stream_id) == eng
nghttp3_conn_submit_info(stream_id, failure) == [rv |-> failure, eng |-> eng]
nghttp3_conn_submit_trailers(stream_id, failure) ==
  [rv |-> failure, eng |-> eng]
nghttp3_conn_submit_shutdown_notice(failure) == [rv |-> failure, eng |-> eng]
nghttp3_conn_shutdown(failure) == [rv |-> failure, eng |-> eng]

(* ------------------------- the Connection object ----------------------- *)
NULL == "NULL"
Qself == [type |-> "self"]
Qtrue == [type |-> "true"]
Qfalse == [type |-> "false"]
LL2NUM(n) == [type |-> "Integer", n |-> n]
\* Values a caller attaches to a stream with set_stream_user_data.
UserData == {[type |-> "Object"]}

\* What a call of read_data_callback answered: its return value, the
\* end-of-data flag and the chunk put in vec[0]; NoCall when the public
\* call did not reach the callback.
NoCall == [type |-> "nocall"]
\* The call returns v.
Return(op, v) ==
  ret' = [op |-> op, raised |-> "none", val |-> v, cb |-> NoCall, n |-> 0]
\* rb_raise: the call ends with an exception of class cls.
rb_raise(op, cls) ==
  ret' = [op |-> op, raised |-> cls, val |-> Qnil, cb |-> NoCall, n |-> 0]
\* nghttp3_rb_raise: the exception class is chosen from the engine's code.
nghttp3_rb_raise(op, error_code) ==
  rb_raise(op, nghttp3_rb_error_class_for_code(error_code))

(* -------------------------- the Callbacks object ----------------------- *)
\* The events of nghttp3_callbacks, by the name of their slot.
Events ==
  {"acked_stream_data", "stream_close", "recv_data", "deferred_consume",
   "begin_headers", "recv_header", "end_headers", "begin_trailers",
   "recv_trailer", "end_trailers", "stop_sending", "end_stream",
   "reset_stream", "shutdown", "recv_settings"}

\* callbacks_alloc: a Callbacks object with every handler unset.
callbacks_alloc ==
  [type |-> "Callbacks",
   on_acked_stream_data |-> Qnil, on_stream_close |-> Qnil,
   on_recv_data |-> Qnil, on_deferred_consume |-> Qnil,
   on_begin_headers |-> Qnil, on_recv_header |-> Qnil,
   on_end_headers |-> Qnil, on_begin_trailers |-> Qnil,
   on_recv_trailer |-> Qnil, on_end_trailers |-> Qnil,
   on_stop_sending |-> Qnil, on_end_stream |-> Qnil,
   on_reset_stream |-> Qnil, on_shutdown |-> Qnil,
   on_recv_settings |-> Qnil]

\* The handler that each wrapper function nghttp3_rb_<event>_callback looks
\* up in the Callbacks object and calls.
nghttp3_rb_callback_handler ==
  [nghttp3_rb_acked_stream_data_callback |-> "on_acked_stream_data",
   nghttp3_rb_stream_close_callback |-> "on_stream_close",
   nghttp3_rb_recv_data_callback |-> "on_recv_data",
   nghttp3_rb_deferred_consume_callback |-> "on_deferred_consume",
   nghttp3_rb_begin_headers_callback |-> "on_begin_headers",
   nghttp3_rb_recv_header_callback |-> "on_recv_header",
   nghttp3_rb_end_headers_callback |-> "on_end_headers",
   nghttp3_rb_begin_trailers_callback |-> "on_begin_trailers",
   nghttp3_rb_recv_trailer_callback |-> "on_recv_trailer",
   nghttp3_rb_end_trailers_callback |-> "on_end_trailers",
   nghttp3_rb_stop_sending_callback |-> "on_stop_sending",
   nghttp3_rb_end_stream_callback |-> "on_end_stream",
   nghttp3_rb_reset_stream_callback |-> "on_reset_stream",
   nghttp3_rb_shutdown_callback |-> "on_shutdown",
   nghttp3_rb_recv_settings_callback |-> "on_recv_settings"]

\* Faulty variant of nghttp3_rb_setup_callbacks: the wrappers of recv_data
\* and end_stream sit in each other's slot.  C21 must fail on it.
nghttp3_rb_setup_callbacks_crossed == [acked_stream_data |-> "nghttp3_rb_acked_stream_data_callback", stream_close |-> "nghttp3_rb_stream_close_callback", recv_data |-> "nghttp3_rb_end_stream_callback", deferred_consume |-> "nghttp3_rb_deferred_consume_callback", begin_headers |-> "nghttp3_rb_begin_headers_callback", recv_header |-> "nghttp3_rb_recv_header_callback", end_headers |-> "nghttp3_rb_end_headers_callback", begin_trailers |-> "nghttp3_rb_begin_trailers_callback", recv_trailer |-> "nghttp3_rb_recv_trailer_callback", end_trailers |-> "nghttp3_rb_end_trailers_callback", stop_sending |-> "nghttp3_rb_stop_sending_callback", end_stream |-> "nghttp3_rb_recv_data_callback", reset_stream |-> "nghttp3_rb_reset_stream_callback", shutdown |-> "nghttp3_rb_shutdown_callback", recv_settings |-> "nghttp3_rb_recv_settings_callback"]

\* nghttp3_rb_setup_callbacks: the wrapper function put in each slot of the
\* engine's nghttp3_callbacks.
nghttp3_rb_setup_callbacks ==
  [acked_stream_data |-> "nghttp3_rb_acked_stream_data_callback",
   stream_close |-> "nghttp3_rb_stream_close_callback",
   recv_data |-> "nghttp3_rb_recv_data_callback",
   deferred_consume |-> "nghttp3_rb_deferred_consume_callback",
   begin_headers |-> "nghttp3_rb_begin_headers_callback",
   recv_header |-> "nghttp3_rb_recv_header_callback",
   end_headers |-> "nghttp3_rb_end_headers_callback",
   begin_trailers |-> "nghttp3_rb_begin_trailers_callback",
   recv_trailer |-> "nghttp3_rb_recv_trailer_callback",
   end_trailers |-> "nghttp3_rb_end_trailers_callback",
   stop_sending |-> "nghttp3_rb_stop_sending_callback",
   end_stream |-> "nghttp3_rb_end_stream_callback",
   reset_stream |-> "nghttp3_rb_reset_stream_callback",
   shutdown |-> "nghttp3_rb_shutdown_callback",
   recv_settings |-> "nghttp3_rb_recv_settings_callback"]

\* What a handler does when it is called: it returns, it raises an
\* exception, or it calls close on the connection and returns.
HandlerDoes == {"return", "raise", "close"}
\* The exception class of a handler that raises: the application's own.
HandlerError == "RuntimeError"

\* One wrapper function.  It returns 0 without running application code
\* when the connection has no Callbacks object or the handler is unset;
\* else it calls the handler with rb_proc_call and returns 0 once the
\* handler has returned.  An exception of the handler is not caught.
nghttp3_rb_callback(wrapper, does) ==
  LET handler == nghttp3_rb_callback_handler[wrapper] IN
  IF NIL_P(callbacks) \/ NIL_P(callbacks[handler])
    THEN [rv |-> 0, invoked |-> <<>>, did |-> "return"]
    ELSE [rv |-> 0, invoked |-> <<handler>>, did |-> does]

\* Nothing was reported yet: the events reported, the handlers run, whether
\* a handler raised, whether a handler called close, and the engine's error.
NoReport ==
  [events |-> <<>>, invoked |-> <<>>, raised |-> FALSE, closed |-> FALSE,
   rv |-> 0]

\* The engine reports the events of one operation in order, through the
\* slots it was given at construction: the slots are all empty when the
\* connection was created without a Callbacks object (client_new and
\* server_new zero the structure and fill it only for a Callbacks object),
\* and an event whose slot is empty is skipped.  After a wrapper returned 0 the engine goes on with the
\* operation; a wrapper returning another value ends it with
\* NGHTTP3_ERR_CALLBACK_FAILURE; an exception raised by a handler unwinds
\* through the engine to the caller of the operation.
RECURSIVE nghttp3_conn_report(_, _, _)
nghttp3_conn_report(acc, events, does) ==
  IF events = <<>> \/ acc.raised \/ acc.rv # 0 THEN acc
  ELSE LET r == IF NIL_P(callbacks)
                  THEN [rv |-> 0, invoked |-> <<>>, did |-> "return"]
                  ELSE nghttp3_rb_callback(
                         nghttp3_rb_setup_callbacks[Head(events)], Head(does))
       IN
       nghttp3_conn_report(
         [events |-> Append(acc.events, Head(events)),
          invoked |-> acc.invoked \o r.invoked,
          raised |-> r.did = "raise",
          closed |-> acc.closed \/ r.did = "close",
          rv |-> IF r.rv # 0 THEN NGHTTP3_ERR_CALLBACK_FAILURE ELSE 0],
         Tail(events), Tail(does))

\* callbacks.on_<event> { ... }: the block becomes the handler of the event.
rb_nghttp3_callbacks_on(handler) ==
  /\ ~NIL_P(callbacks)
  /\ callbacks' = [callbacks EXCEPT ![handler] = RProc]
  /\ UNCHANGED <<conn, is_closed, is_server, stream_data_readers,
                 stream_user_data, pending_data, eng, ret, app, conn_mem>>
  /\ UNCHANGED qvars

\* The guard every operation on the engine starts with.
ConnClosed == conn = NULL \/ is_closed

\* What the handlers of one operation left behind.  A handler that called
\* close released the engine at once (rb_nghttp3_connection_close); as it
\* then returned, the engine went on with the operation on the released
\* connection.
HandlerEffects(d, engine) ==
  IF d.closed
    THEN /\ conn' = NULL
         /\ is_closed' = TRUE
         /\ eng' = EngInit
         /\ conn_mem' = [conn_mem EXCEPT !.dels = @ + 1, !.stale_use = TRUE]
    ELSE /\ UNCHANGED <<conn, is_closed, conn_mem>>
         /\ eng' = engine
\* The engine states an operation can leave: a handler's exception unwinds
\* out of the middle of the operation, with its changes made or not.
Interrupted(d, before, after) == IF d.raised THEN {before, after} ELSE {after}
\* The results an operation can give: what the engine computed, or, once it
\* ran on a released connection, anything.
Outcomes(d, rv) == IF d.closed THEN {rv, NGHTTP3_ERR_FATAL} ELSE {rv}


rb_nghttp3_connection_bind_control_stream(rb_stream_id) ==
  /\ UNCHANGED qvars
  /\ app' = NoApp
  /\ UNCHANGED <<callbacks, conn_mem>>
  /\ IF ConnClosed
       THEN /\ rb_raise("bind_control_stream", "InvalidStateError")
            /\ UNCHANGED eng
       ELSE LET r == nghttp3_conn_bind_control_stream(rb_stream_id) IN
            /\ eng' = r.eng
            /\ IF r.rv # 0
                 THEN nghttp3_rb_raise("bind_control_stream", r.rv)
                 ELSE Return("bind_control_stream", Qself)
  /\ UNCHANGED <<conn, is_closed, is_server, stream_data_readers,
                 stream_user_data, pending_data>>

rb_nghttp3_connection_bind_qpack_streams(enc_dec) ==
  /\ UNCHANGED qvars
  /\ app' = NoApp
  /\ UNCHANGED <<callbacks, conn_mem>>
  /\ IF ConnClosed
       THEN /\ rb_raise("bind_qpack_streams", "InvalidStateError")
            /\ UNCHANGED eng
       ELSE LET r == nghttp3_conn_bind_qpack_streams(enc_dec) IN
            /\ eng' = r.eng
            /\ IF r.rv # 0
                 THEN nghttp3_rb_raise("bind_qpack_streams", r.rv)
                 ELSE Return("bind_qpack_streams", Qself)
  /\ UNCHANGED <<conn, is_closed, is_server, stream_data_readers,
                 stream_user_data, pending_data>>

\* Faulty variant of close: the engine is released on every call, closed or
\* not.  C28 must fail on it.
rb_nghttp3_connection_close_unguarded == UNCHANGED qvars /\ app' = NoApp /\ UNCHANGED callbacks /\ eng' = EngInit /\ conn_mem' = [conn_mem EXCEPT !.dels = @ + 1] /\ conn' = NULL /\ is_closed' = TRUE /\ Return("close", Qnil) /\ UNCHANGED <<is_server, stream_data_readers, stream_user_data, pending_data>>

\* close: nghttp3_conn_del releases the engine and everything it holds.
rb_nghttp3_connection_close ==
  /\ UNCHANGED qvars
  /\ app' = NoApp
  /\ UNCHANGED callbacks
  /\ IF conn # NULL /\ ~is_closed
       THEN /\ eng' = EngInit
            /\ conn_mem' = [conn_mem EXCEPT !.dels = @ + 1]
            /\ conn' = NULL
            /\ is_closed' = TRUE
       ELSE UNCHANGED <<eng, conn, is_closed, conn_mem>>
  /\ Return("close", Qnil)
  /\ UNCHANGED <<is_server, stream_data_readers, stream_user_data,
                 pending_data>>

rb_nghttp3_connection_closed_p ==
  /\ UNCHANGED qvars
  /\ app' = NoApp
  /\ UNCHANGED <<callbacks, conn_mem>>
  /\ Return("closed?", IF is_closed THEN Qtrue ELSE Qfalse)
  /\ UNCHANGED <<conn, is_closed, is_server, stream_data_readers,
                 stream_user_data, pending_data, eng>>

rb_nghttp3_connection_server_p ==
  /\ UNCHANGED qvars
  /\ app' = NoApp
  /\ UNCHANGED <<callbacks, conn_mem>>
  /\ Return("server?", IF is_server THEN Qtrue ELSE Qfalse)
  /\ UNCHANGED <<conn, is_closed, is_server, stream_data_readers,
                 stream_user_data, pending_data, eng>>

rb_nghttp3_connection_client_p ==
  /\ UNCHANGED qvars
  /\ app' = NoApp
  /\ UNCHANGED <<callbacks, conn_mem>>
  /\ Return("client?", IF is_server THEN Qfalse ELSE Qtrue)
  /\ UNCHANGED <<conn, is_closed, is_server, stream_data_readers,
                 stream_user_data, pending_data, eng>>

\* events are the events the engine finds in the data, does what the
\* handler of each does when it is called.
rb_nghttp3_connection_read_stream(rb_stream_id, rb_data, failure, events, does) ==
  /\ UNCHANGED qvars
  /\ UNCHANGED callbacks
  /\ IF ConnClosed
       THEN /\ rb_raise("read_stream", "InvalidStateError")
            /\ app' = NoApp
            /\ UNCHANGED <<eng, conn, is_closed, conn_mem>>
       ELSE LET r == nghttp3_conn_read_stream(rb_stream_id, rb_data.len,
                                              failure)
                d == nghttp3_conn_report(
                       NoReport, IF r.rv < 0 THEN <<>> ELSE events, does)
            IN
            /\ app' = [events |-> d.events, invoked |-> d.invoked,
                       aborted |-> d.raised]
            /\ \E e \in Interrupted(d, eng, r.eng) : HandlerEffects(d, e)
            /\ \E rv \in Outcomes(d, r.rv) :
                 IF d.raised THEN rb_raise("read_stream", HandlerError)
                 ELSE IF rv < 0 THEN nghttp3_rb_raise("read_stream", rv)
                 ELSE Return("read_stream", LL2NUM(rv))
  /\ UNCHANGED <<is_server, stream_data_readers, stream_user_data,
                 pending_data>>

rb_nghttp3_connection_add_write_offset(rb_stream_id, rb_n, failure) ==
  /\ UNCHANGED qvars
  /\ app' = NoApp
  /\ UNCHANGED <<callbacks, conn_mem>>
  /\ IF ConnClosed
       THEN /\ rb_raise("add_write_offset", "InvalidStateError")
            /\ UNCHANGED eng
       ELSE LET r == nghttp3_conn_add_write_offset(rb_stream_id, rb_n,
                                                   failure) IN
            /\ eng' = r.eng
            /\ ret' = [op |-> "add_write_offset",
                       raised |-> IF r.rv # 0
                                    THEN nghttp3_rb_error_class_for_code(r.rv)
                                    ELSE "none",
                       val |-> IF r.rv # 0 THEN Qnil ELSE Qself,
                       cb |-> NoCall, n |-> rb_n]
  /\ UNCHANGED <<conn, is_closed, is_server, stream_data_readers,
                 stream_user_data, pending_data>>

\* The engine reports the acknowledged bytes when the stream's acknowledged
\* offset moved; does is what the handler does when it is called.
rb_nghttp3_connection_add_ack_offset(rb_stream_id, rb_n, failure, does) ==
  /\ UNCHANGED qvars
  /\ UNCHANGED callbacks
  /\ IF ConnClosed
       THEN /\ rb_raise("add_ack_offset", "InvalidStateError")
            /\ app' = NoApp
            /\ UNCHANGED <<eng, conn, is_closed, conn_mem>>
       ELSE LET r == nghttp3_conn_add_ack_offset(rb_stream_id, rb_n,
                                                 failure)
                d == nghttp3_conn_report(
                       NoReport,
                       IF r.rv = 0
                            /\ r.eng.st[rb_stream_id].ao > eng.st[rb_stream_id].ao
                         THEN <<"acked_stream_data">> ELSE <<>>,
                       <<does>>)
            IN
            /\ app' = [events |-> d.events, invoked |-> d.invoked,
                       aborted |-> d.raised]
            /\ \E e \in Interrupted(d, eng, r.eng) : HandlerEffects(d, e)
            /\ \E rv \in Outcomes(d, r.rv) :
                 ret' = [op |-> "add_ack_offset",
                         raised |-> IF d.raised THEN HandlerError
                                    ELSE IF rv # 0
                                      THEN nghttp3_rb_error_class_for_code(rv)
                                    ELSE "none",
                         val |-> IF d.raised \/ rv # 0 THEN Qnil ELSE Qself,
                         cb |-> NoCall, n |-> rb_n]
  /\ UNCHANGED <<is_server, stream_data_readers, stream_user_data,
                 pending_data>>

rb_nghttp3_connection_block_stream(rb_stream_id) ==
  /\ UNCHANGED qvars
  /\ app' = NoApp
  /\ UNCHANGED <<callbacks, conn_mem>>
  /\ IF ConnClosed
       THEN /\ rb_raise("block_stream", "InvalidStateError")
            /\ UNCHANGED eng
       ELSE /\ eng' = nghttp3_conn_block_stream(rb_stream_id)
            /\ Return("block_stream", Qself)
  /\ UNCHANGED <<conn, is_closed, is_server, stream_data_readers,
                 stream_user_data, pending_data>>

rb_nghttp3_connection_unblock_stream(rb_stream_id, failure) ==
  /\ UNCHANGED qvars
  /\ app' = NoApp
  /\ UNCHANGED <<callbacks, conn_mem>>
  /\ IF ConnClosed
       THEN /\ rb_raise("unblock_stream", "InvalidStateError")
            /\ UNCHANGED eng
       ELSE LET r == nghttp3_conn_unblock_stream(rb_stream_id, failure) IN
            /\ eng' = r.eng
            /\ IF r.rv # 0
                 THEN nghttp3_rb_raise("unblock_stream", r.rv)
                 ELSE Return("unblock_stream", Qself)
  /\ UNCHANGED <<conn, is_closed, is_server, stream_data_readers,
                 stream_user_data, pending_data>>

rb_nghttp3_connection_stream_writable_p(rb_stream_id) ==
  /\ UNCHANGED qvars
  /\ app' = NoApp
  /\ UNCHANGED <<callbacks, conn_mem>>
  /\ IF ConnClosed
       THEN rb_raise("stream_writable?", "InvalidStateError")
       ELSE Return("stream_writable?",
                   IF nghttp3_conn_is_stream_writable(rb_stream_id)
                     THEN Qtrue ELSE Qfalse)
  /\ UNCHANGED <<conn, is_closed, is_server, stream_data_readers,
                 stream_user_data, pending_data, eng>>

\* The engine reports the close of the stream when it closed it; does is
\* what the handler does when it is called.
rb_nghttp3_connection_close_stream(rb_stream_id, does) ==
  /\ UNCHANGED qvars
  /\ UNCHANGED callbacks
  /\ IF ConnClosed
       THEN /\ rb_raise("close_stream", "InvalidStateError")
            /\ app' = NoApp
            /\ UNCHANGED <<eng, conn, is_closed, conn_mem>>
       ELSE LET r == nghttp3_conn_close_stream(rb_stream_id)
                d == nghttp3_conn_report(
                       NoReport,
                       IF r.rv # 0 THEN <<>> ELSE <<"stream_close">>,
                       <<does>>)
            IN
            /\ app' = [events |-> d.events, invoked |-> d.invoked,
                       aborted |-> d.raised]
            /\ \E e \in Interrupted(d, eng, r.eng) : HandlerEffects(d, e)
            /\ \E rv \in Outcomes(d, r.rv) :
                 IF d.raised THEN rb_raise("close_stream", HandlerError)
                 ELSE IF rv # 0 THEN nghttp3_rb_raise("close_stream", rv)
                 ELSE Return("close_stream", Qself)
  /\ UNCHANGED <<is_server, stream_data_readers, stream_user_data,
                 pending_data>>

rb_nghttp3_connection_shutdown_stream_write(rb_stream_id) ==
  /\ UNCHANGED qvars
  /\ app' = NoApp
  /\ UNCHANGED <<callbacks, conn_mem>>
  /\ IF ConnClosed
       THEN /\ rb_raise("shutdown_stream_write", "InvalidStateError")
            /\ UNCHANGED eng
       ELSE /\ eng' = nghttp3_conn_shutdown_stream_write(rb_stream_id)
            /\ Return("shutdown_stream_write", Qself)
  /\ UNCHANGED <<conn, is_closed, is_server, stream_data_readers,
                 stream_user_data, pending_data>>

rb_nghttp3_connection_resume_stream(rb_stream_id) ==
  /\ UNCHANGED qvars
  /\ app' = NoApp
  /\ UNCHANGED <<callbacks, conn_mem>>
  /\ IF ConnClosed
       THEN /\ rb_raise("resume_stream", "InvalidStateError")
            /\ UNCHANGED eng
       ELSE LET r == nghttp3_conn_resume_stream(rb_stream_id) IN
            /\ eng' = r.eng
            /\ IF r.rv # 0
                 THEN nghttp3_rb_raise("resume_stream", r.rv)
                 ELSE Return("resume_stream", Qself)
  /\ UNCHANGED <<conn, is_closed, is_server, stream_data_readers,
                 stream_user_data, pending_data>>

rb_nghttp3_connection_submit_info(rb_stream_id, failure) ==
  /\ UNCHANGED qvars
  /\ app' = NoApp
  /\ UNCHANGED <<callbacks, conn_mem>>
  /\ IF ConnClosed
       THEN /\ rb_raise("submit_info", "InvalidStateError")
            /\ UNCHANGED eng
       ELSE LET r == nghttp3_conn_submit_info(rb_stream_id, failure) IN
            /\ eng' = r.eng
            /\ IF r.rv # 0
                 THEN nghttp3_rb_raise("submit_info", r.rv)
                 ELSE Return("submit_info", Qself)
  /\ UNCHANGED <<conn, is_closed, is_server, stream_data_readers,
                 stream_user_data, pending_data>>

rb_nghttp3_connection_submit_trailers(rb_stream_id, failure) ==
  /\ UNCHANGED qvars
  /\ app' = NoApp
  /\ UNCHANGED <<callbacks, conn_mem>>
  /\ IF ConnClosed
       THEN /\ rb_raise("submit_trailers", "InvalidStateError")
            /\ UNCHANGED eng
       ELSE LET r == nghttp3_conn_submit_trailers(rb_stream_id, failure) IN
            /\ eng' = r.eng
            /\ IF r.rv # 0
                 THEN nghttp3_rb_raise("submit_trailers", r.rv)
                 ELSE Return("submit_trailers", Qself)
  /\ UNCHANGED <<conn, is_closed, is_server, stream_data_readers,
                 stream_user_data, pending_data>>

rb_nghttp3_connection_submit_shutdown_notice(failure) ==
  /\ UNCHANGED qvars
  /\ app' = NoApp
  /\ UNCHANGED <<callbacks, conn_mem>>
  /\ IF ConnClosed
       THEN /\ rb_raise("submit_shutdown_notice", "InvalidStateError")
            /\ UNCHANGED eng
       ELSE LET r == nghttp3_conn_submit_shutdown_notice(failure) IN
            /\ eng' = r.eng
            /\ IF r.rv # 0
                 THEN nghttp3_rb_raise("submit_shutdown_notice", r.rv)
                 ELSE Return("submit_shutdown_notice", Qself)
  /\ UNCHANGED <<conn, is_closed, is_server, stream_data_readers,
                 stream_user_data, pending_data>>

rb_nghttp3_connection_shutdown(failure) ==
  /\ UNCHANGED qvars
  /\ app' = NoApp
  /\ UNCHANGED <<callbacks, conn_mem>>
  /\ IF ConnClosed
       THEN /\ rb_raise("shutdown", "InvalidStateError")
            /\ UNCHANGED eng
       ELSE LET r == nghttp3_conn_shutdown(failure) IN
            /\ eng' = r.eng
            /\ IF r.rv # 0
                 THEN nghttp3_rb_raise("shutdown", r.rv)
                 ELSE Return("shutdown", Qself)
  /\ UNCHANGED <<conn, is_closed, is_server, stream_data_readers,
                 stream_user_data, pending_data>>

rb_nghttp3_connection_set_stream_user_data(rb_stream_id, rb_data) ==
  /\ UNCHANGED qvars
  /\ app' = NoApp
  /\ UNCHANGED <<callbacks, conn_mem>>
  /\ IF ConnClosed
       THEN /\ rb_raise("set_stream_user_data", "InvalidStateError")
            /\ UNCHANGED stream_user_data
       ELSE /\ stream_user_data' =
                 [stream_user_data EXCEPT ![rb_stream_id] = rb_data]
            /\ Return("set_stream_user_data", Qself)
  /\ UNCHANGED <<conn, is_closed, is_server, stream_data_readers,
                 pending_data, eng>>

\* Faulty variant of get_stream_user_data: the closed-connection guard is
\* missing.  C1 must fail on it.
rb_nghttp3_connection_get_stream_user_data_unguarded(rb_stream_id) ==
  /\ UNCHANGED qvars
  /\ app' = NoApp
  /\ UNCHANGED <<callbacks, conn_mem>>
  /\ Return("get_stream_user_data", stream_user_data[rb_stream_id])
  /\ UNCHANGED <<conn, is_closed, is_server, stream_data_readers,
                 stream_user_data, pending_data, eng>>

rb_nghttp3_connection_get_stream_user_data(rb_stream_id) ==
  /\ UNCHANGED qvars
  /\ app' = NoApp
  /\ UNCHANGED <<callbacks, conn_mem>>
  /\ IF ConnClosed
       THEN rb_raise("get_stream_user_data", "InvalidStateError")
       ELSE Return("get_stream_user_data", stream_user_data[rb_stream_id])
  /\ UNCHANGED <<conn, is_closed, is_server, stream_data_readers,
                 stream_user_data, pending_data, eng>>

(* ----------------------------- body sources ---------------------------- *)
\* What a body Proc can answer: nil (end of data), :wouldblock or a String.
ProcResults == {Qnil, RSymWouldblock} \cup Strings

\* Faulty variant of read_data_callback: a fixed buffer is handed over
\* without being kept in pending_data.  C7 must fail on it.
read_data_callback_no_pending(stream_id, result) ==
  LET readers == stream_data_readers
      reader == readers[stream_id]
  IN
  IF NIL_P(reader)
    THEN [rv |-> 0, eof |-> TRUE, vec |-> Qnil, funcall |-> FALSE,
          readers |-> readers, pending |-> pending_data]
  ELSE IF reader.type = "String"
    THEN [rv |-> 1, eof |-> TRUE, vec |-> reader, funcall |-> FALSE,
          readers |-> [readers EXCEPT ![stream_id] = Qnil],
          pending |-> pending_data]
  ELSE IF NIL_P(result)
    THEN [rv |-> 0, eof |-> TRUE, vec |-> Qnil, funcall |-> TRUE,
          readers |-> [readers EXCEPT ![stream_id] = Qnil],
          pending |-> pending_data]
  ELSE IF result = RSymWouldblock
    THEN [rv |-> NGHTTP3_ERR_WOULDBLOCK, eof |-> FALSE, vec |-> Qnil,
          funcall |-> TRUE, readers |-> readers, pending |-> pending_data]
  ELSE [rv |-> 1, eof |-> FALSE, vec |-> result, funcall |-> TRUE,
        readers |-> readers,
        pending |-> [pending_data EXCEPT ![stream_id] = Append(@, result)]]

\* Faulty variant of read_data_callback: a fixed buffer is handed over and
\* stays registered.  C9 must fail on it.
read_data_callback_keeps_reader(stream_id, result) ==
  LET readers == stream_data_readers
      reader == readers[stream_id]
  IN
  IF NIL_P(reader)
    THEN [rv |-> 0, eof |-> TRUE, vec |-> Qnil, funcall |-> FALSE,
          readers |-> readers, pending |-> pending_data]
  ELSE IF reader.type = "String"
    THEN [rv |-> 1, eof |-> TRUE, vec |-> reader, funcall |-> FALSE,
          readers |-> readers,
          pending |-> [pending_data EXCEPT ![stream_id] = Append(@, reader)]]
  ELSE IF NIL_P(result)
    THEN [rv |-> 0, eof |-> TRUE, vec |-> Qnil, funcall |-> TRUE,
          readers |-> [readers EXCEPT ![stream_id] = Qnil],
          pending |-> pending_data]
  ELSE IF result = RSymWouldblock
    THEN [rv |-> NGHTTP3_ERR_WOULDBLOCK, eof |-> FALSE, vec |-> Qnil,
          funcall |-> TRUE, readers |-> readers, pending |-> pending_data]
  ELSE [rv |-> 1, eof |-> FALSE, vec |-> result, funcall |-> TRUE,
        readers |-> readers,
        pending |-> [pending_data EXCEPT ![stream_id] = Append(@, result)]]

\* Faulty variant of read_data_callback: a Proc that answers :wouldblock is
\* unregistered.  C10 must fail on it.
read_data_callback_wouldblock_unregisters(stream_id, result) ==
  LET readers == stream_data_readers
      reader == readers[stream_id]
  IN
  IF NIL_P(reader)
    THEN [rv |-> 0, eof |-> TRUE, vec |-> Qnil, funcall |-> FALSE,
          readers |-> readers, pending |-> pending_data]
  ELSE IF reader.type = "String"
    THEN [rv |-> 1, eof |-> TRUE, vec |-> reader, funcall |-> FALSE,
          readers |-> [readers EXCEPT ![stream_id] = Qnil],
          pending |-> [pending_data EXCEPT ![stream_id] = Append(@, reader)]]
  ELSE IF NIL_P(result)
    THEN [rv |-> 0, eof |-> TRUE, vec |-> Qnil, funcall |-> TRUE,
          readers |-> [readers EXCEPT ![stream_id] = Qnil],
          pending |-> pending_data]
  ELSE IF result = RSymWouldblock
    THEN [rv |-> NGHTTP3_ERR_WOULDBLOCK, eof |-> FALSE, vec |-> Qnil,
          funcall |-> TRUE,
          readers |-> [readers EXCEPT ![stream_id] = Qnil],
          pending |-> pending_data]
  ELSE [rv |-> 1, eof |-> FALSE, vec |-> result, funcall |-> TRUE,
        readers |-> readers,
        pending |-> [pending_data EXCEPT ![stream_id] = Append(@, result)]]

\* read_data_callback: the engine asks for body bytes of stream_id; result
\* is what the registered Proc answers when it is called.  The answer holds
\* the return value rv (number of vec entries, or an error code), the
\* NGHTTP3_DATA_FLAG_EOF bit of *pflags, vec[0], whether the Proc was
\* called (funcall) and the hashes as the callback leaves them.
read_data_callback(stream_id, result) ==
  LET readers == stream_data_readers
      reader == readers[stream_id]
  IN
  IF NIL_P(reader)
    THEN [rv |-> 0, eof |-> TRUE, vec |-> Qnil, funcall |-> FALSE,
          readers |-> readers, pending |-> pending_data]
  ELSE IF reader.type = "String"
    THEN [rv |-> 1, eof |-> TRUE, vec |-> reader, funcall |-> FALSE,
          readers |-> [readers EXCEPT ![stream_id] = Qnil],
          pending |-> [pending_data EXCEPT ![stream_id] = Append(@, reader)]]
  ELSE IF NIL_P(result)
    THEN [rv |-> 0, eof |-> TRUE, vec |-> Qnil, funcall |-> TRUE,
          readers |-> [readers EXCEPT ![stream_id] = Qnil],
          pending |-> pending_data]
  ELSE IF result = RSymWouldblock
    THEN [rv |-> NGHTTP3_ERR_WOULDBLOCK, eof |-> FALSE, vec |-> Qnil,
          funcall |-> TRUE, readers |-> readers, pending |-> pending_data]
  ELSE [rv |-> 1, eof |-> FALSE, vec |-> result, funcall |-> TRUE,
        readers |-> readers,
        pending |-> [pending_data EXCEPT ![stream_id] = Append(@, result)]]

\* The engine found no stream to write.
NoStreamId == -1
\* The callback was not called.
NoPull ==
  [rv |-> 0, eof |-> FALSE, vec |-> Qnil, funcall |-> FALSE,
   readers |-> stream_data_readers, pending |-> pending_data]

\* The streams the engine can pull body bytes for.
Pullable ==
  {s \in StreamIds : eng.st[s].phase = "ready"}

\* nghttp3_conn_writev_stream: the engine picked stream_id (NoStreamId when
\* no stream has a body to pull) and pulled once from its data reader; cb is
\* the callback's answer.  Would-block parks the stream without an error,
\* any other negative answer is a callback failure, end of data finishes
\* the stream, and a chunk is queued until it is acknowledged.
nghttp3_conn_writev_stream(stream_id, cb) ==
  IF stream_id = NoStreamId
    THEN [rv |-> 0, stream_id |-> NoStreamId, fin |-> FALSE, len |-> 0,
          eng |-> eng]
  ELSE IF cb.rv = NGHTTP3_ERR_WOULDBLOCK
    THEN [rv |-> 0, stream_id |-> NoStreamId, fin |-> FALSE, len |-> 0,
          eng |-> [eng EXCEPT !.st[stream_id].phase = "rdblocked"]]
  ELSE IF cb.rv < 0
    THEN [rv |-> NGHTTP3_ERR_CALLBACK_FAILURE, stream_id |-> NoStreamId,
          fin |-> FALSE, len |-> 0, eng |-> eng]
  ELSE IF cb.rv = 0
    THEN [rv |-> 0, stream_id |-> stream_id, fin |-> cb.eof, len |-> 0,
          eng |-> [eng EXCEPT !.st[stream_id].phase =
                                 IF cb.eof THEN "eof" ELSE @]]
  ELSE [rv |-> cb.rv, stream_id |-> stream_id, fin |-> cb.eof,
        len |-> cb.vec.len,
        eng |-> [eng EXCEPT !.st[stream_id].phase =
                               IF cb.eof THEN "eof" ELSE @,
                            !.st[stream_id].outq = Append(@, cb.vec)]]

\* writev_stream; stream_id is the engine's pick and result the answer of
\* the body Proc, should the engine's pull call one.
rb_nghttp3_connection_writev_stream(stream_id, result) ==
  /\ UNCHANGED qvars
  /\ app' = NoApp
  /\ UNCHANGED <<callbacks, conn_mem>>
  /\ IF ConnClosed
       THEN /\ rb_raise("writev_stream", "InvalidStateError")
            /\ UNCHANGED <<eng, stream_data_readers, pending_data>>
       ELSE LET cb == IF stream_id = NoStreamId
                        THEN NoPull
                        ELSE read_data_callback(stream_id, result)
                r == nghttp3_conn_writev_stream(stream_id, cb)
                called == IF stream_id = NoStreamId
                            THEN NoCall
                            ELSE [type |-> "call", stream_id |-> stream_id,
                                  rv |-> cb.rv, eof |-> cb.eof,
                                  vec |-> cb.vec, funcall |-> cb.funcall]
            IN
            /\ eng' = r.eng
            /\ stream_data_readers' = cb.readers
            /\ pending_data' = cb.pending
            /\ IF r.rv < 0
                 THEN ret' = [op |-> "writev_stream",
                              raised |-> nghttp3_rb_error_class_for_code(r.rv),
                              val |-> Qnil, cb |-> called, n |-> 0]
                 ELSE ret' = [op |-> "writev_stream", raised |-> "none",
                              val |-> IF r.rv = 0 /\ r.stream_id = NoStreamId
                                        THEN Qnil
                                        ELSE [type |-> "Hash",
                                              stream_id |-> r.stream_id,
                                              fin |-> r.fin,
                                              data |-> RString(r.len)],
                              cb |-> called, n |-> 0]
  /\ UNCHANGED <<conn, is_closed, is_server, stream_user_data>>

(* ------------------------------- submits ------------------------------- *)
\* The body: keyword of a submit: nil or a String.
Bodies == {Qnil} \cup Strings

\* Faulty variant of submit_request: the role check is missing.  C2 must
\* fail on it.
rb_nghttp3_connection_submit_request_any_role(rb_stream_id, rb_body, block_given, failure) ==
  /\ UNCHANGED qvars
  /\ app' = NoApp
  /\ UNCHANGED <<callbacks, conn_mem>>
  /\ IF ConnClosed
       THEN /\ rb_raise("submit_request", "InvalidStateError")
            /\ UNCHANGED <<eng, stream_data_readers>>
     ELSE LET has_body == ~NIL_P(rb_body) \/ block_given
              registered ==
                IF ~NIL_P(rb_body)
                  THEN [stream_data_readers EXCEPT ![rb_stream_id] = rb_body]
                ELSE IF block_given
                  THEN [stream_data_readers EXCEPT ![rb_stream_id] = RProc]
                ELSE stream_data_readers
              r == nghttp3_conn_submit_request(rb_stream_id, has_body, failure)
          IN
          /\ eng' = r.eng
          /\ IF r.rv # 0
               THEN /\ stream_data_readers' =
                         [registered EXCEPT ![rb_stream_id] = Qnil]
                    /\ nghttp3_rb_raise("submit_request", r.rv)
               ELSE /\ stream_data_readers' = registered
                    /\ Return("submit_request", Qself)
  /\ UNCHANGED <<conn, is_closed, is_server, stream_user_data, pending_data>>

\* submit_request(stream_id, headers, body: rb_body) with or without a block.
rb_nghttp3_connection_submit_request(rb_stream_id, rb_body, block_given, failure) ==
  /\ UNCHANGED qvars
  /\ app' = NoApp
  /\ UNCHANGED <<callbacks, conn_mem>>
  /\ IF ConnClosed
       THEN /\ rb_raise("submit_request", "InvalidStateError")
            /\ UNCHANGED <<eng, stream_data_readers>>
     ELSE IF is_server
       THEN /\ rb_raise("submit_request", "InvalidStateError")
            /\ UNCHANGED <<eng, stream_data_readers>>
     ELSE LET has_body == ~NIL_P(rb_body) \/ block_given
              registered ==
                IF ~NIL_P(rb_body)
                  THEN [stream_data_readers EXCEPT ![rb_stream_id] = rb_body]
                ELSE IF block_given
                  THEN [stream_data_readers EXCEPT ![rb_stream_id] = RProc]
                ELSE stream_data_readers
              r == nghttp3_conn_submit_request(rb_stream_id, has_body, failure)
          IN
          /\ eng' = r.eng
          /\ IF r.rv # 0
               THEN /\ stream_data_readers' =
                         [registered EXCEPT ![rb_stream_id] = Qnil]
                    /\ nghttp3_rb_raise("submit_request", r.rv)
               ELSE /\ stream_data_readers' = registered
                    /\ Return("submit_request", Qself)
  /\ UNCHANGED <<conn, is_closed, is_server, stream_user_data, pending_data>>

\* submit_response(stream_id, headers, body: rb_body) with or without a block.
rb_nghttp3_connection_submit_response(rb_stream_id, rb_body, block_given, failure) ==
  /\ UNCHANGED qvars
  /\ app' = NoApp
  /\ UNCHANGED <<callbacks, conn_mem>>
  /\ IF ConnClosed
       THEN /\ rb_raise("submit_response", "InvalidStateError")
            /\ UNCHANGED <<eng, stream_data_readers>>
     ELSE IF ~is_server
       THEN /\ rb_raise("submit_response", "InvalidStateError")
            /\ UNCHANGED <<eng, stream_data_readers>>
     ELSE LET has_body == ~NIL_P(rb_body) \/ block_given
              registered ==
                IF ~NIL_P(rb_body)
                  THEN [stream_data_readers EXCEPT ![rb_stream_id] = rb_body]
                ELSE IF block_given
                  THEN [stream_data_readers EXCEPT ![rb_stream_id] = RProc]
                ELSE stream_data_readers
              r == nghttp3_conn_submit_response(rb_stream_id, has_body,
                                                failure)
          IN
          /\ eng' = r.eng
          /\ IF r.rv # 0
               THEN /\ stream_data_readers' =
                         [registered EXCEPT ![rb_stream_id] = Qnil]
                    /\ nghttp3_rb_raise("submit_response", r.rv)
               ELSE /\ stream_data_readers' = registered
                    /\ Return("submit_response", Qself)
  /\ UNCHANGED <<conn, is_closed, is_server, stream_user_data, pending_data>>

(* ================================ QPACK ================================= *)
(* The QPACK::Encoder and QPACK::Decoder objects of nghttp3_qpack.c.  The   *)
(* wrapped encoder and decoder (the nghttp3_qpack_* functions) are not part *)
(* of the binding's sources; the operators named nghttp3_qpack_* model      *)
(* them from the specification (sections 3, 4.2, 4.3 and 8).  A byte string *)
(* is a sequence of whole instructions; an instruction split between two    *)
(* strings is not modelled.                                                 *)

(* ------------------------------- bounds -------------------------------- *)
\* Longest header list given to encode.
MaxHeaders == 2
\* Cap on the number of entries the encoder inserts into its table.
MaxInserts == 1
\* Cap on the encoder-stream instructions in flight.
MaxEncoderStream == 2
\* Cap on the decoder-stream instructions waiting in the decoder's buffer,
\* and on those in flight.
MaxDecoderStream == 2

\* The request streams the engines know, and the one whose header blocks
\* are encoded and decoded in full detail.
QpackStreamIds == {0, 4}
FirstStream == {0}

\* NV.new(name, value): names and values of one byte each.
NV(name, value) == [name |-> name, value |-> value]
HeaderFields == {NV("a", "1"), NV("b", "2")}
HeaderLists == UNION {[1..n -> HeaderFields] : n \in 0..MaxHeaders}

\* An entry's size: its name and value (one byte each) and a fixed overhead.
EntryOverhead == 32
EntrySize(nv) == EntryOverhead + 1 + 1

\* Capacities given to the encoder's max_dtable_capacity=: room for no
\* entry and for one; Encoder.new and Decoder.new are given the largest.
DtableCapacities == {0, EntryOverhead + 2}
\* A capacity above the one the decoder was created with.
ExcessCapacity == 2 * (EntryOverhead + 2)
\* Values given to max_blocked_streams=; Decoder.new is given the largest.
BlockedLimits == {0, 1, 2}

\* The instructions byte strings are made of.
Token(kind, idx, name, value) ==
  [kind |-> kind, idx |-> idx, name |-> name, value |-> value]
\* In a header block: its prefix with the required insert count, a field
\* that names a dynamic table entry by its absolute index, a literal field.
Prefix(ric) == Token("prefix", ric, "", "")
Indexed(abs) == Token("indexed", abs, "", "")
Literal(nv) == Token("literal", 0, nv.name, nv.value)
\* On the encoder stream: an insertion, a capacity update.
Insert(nv) == Token("insert", 0, nv.name, nv.value)
SetCapacity(cap) == Token("capacity", cap, "", "")
\* On the decoder stream: a section acknowledgement, a stream cancellation.
SectionAck(stream_id) == Token("ack", stream_id, "", "")
StreamCancel(stream_id) == Token("cancel", stream_id, "", "")
\* Bytes that are no instruction.
Corrupt == Token("corrupt", 0, "", "")

SetMax(S) == CHOOSE x \in S : \A y \in S : y <= x

(* --------------------------- dynamic table ----------------------------- *)
\* A table is a sequence of entries [abs, nv], oldest first.
RECURSIVE TableSize(_)
TableSize(table) ==
  IF table = <<>> THEN 0 ELSE EntrySize(Head(table).nv) + TableSize(Tail(table))

\* Evicts the oldest entries until the table fits into room; an entry in
\* pinned is not evicted, and the eviction then fails.
RECURSIVE Evict_unpinned(_, _, _)
Evict_unpinned(table, room, pinned) == IF room >= 0 /\ TableSize(table) <= room THEN [ok |-> TRUE, table |-> table] ELSE IF table = <<>> THEN [ok |-> FALSE, table |-> table] ELSE Evict_unpinned(Tail(table), room, pinned)
RECURSIVE Evict(_, _, _)
Evict(table, room, pinned) ==
  IF room >= 0 /\ TableSize(table) <= room
    THEN [ok |-> TRUE, table |-> table]
  ELSE IF table = <<>> \/ Head(table).abs \in pinned
    THEN [ok |-> FALSE, table |-> table]
  ELSE Evict(Tail(table), room, pinned)

\* The positions of the entries of table that hold nv.
Positions(table, nv) == {i \in 1..Len(table) : table[i].nv = nv}

(* ---------------------------- wrapped encoder -------------------------- *)
\* nghttp3_qpack_encoder_new: an empty table; max_dtable_capacity is the
\* capacity asked for, cap the capacity last announced to the peer; krc is
\* the insert count the peer has acknowledged; blocks[s] are the header
\* blocks of stream s not yet acknowledged, oldest first.
nghttp3_qpack_encoder_new(max_capacity) ==
  [type |-> "encoder", table |-> <<>>, icnt |-> 0, krc |-> 0, cap |-> 0,
   max_dtable_capacity |-> max_capacity, max_blocked |-> 0,
   blocks |-> [s \in QpackStreamIds |-> <<>>]]

\* The absolute indices that unacknowledged header blocks refer to.
Referenced(encoder) ==
  UNION {UNION {encoder.blocks[s][i].refs : i \in 1..Len(encoder.blocks[s])} :
           s \in QpackStreamIds}

\* The required insert count of a header block that refers to refs.
RequiredInsertCount(refs) == IF refs = {} THEN 0 ELSE SetMax(refs) + 1

\* The streams that may be blocked at the peer: those with a header block
\* whose required insert count the peer has not acknowledged.  ric is the
\* required insert count of the block being encoded for stream_id.
BlockingStreams(encoder, stream_id, ric) ==
  {s \in QpackStreamIds :
     \E i \in 1..Len(encoder.blocks[s]) : encoder.blocks[s][i].ric > encoder.krc}
  \cup (IF ric > encoder.krc THEN {stream_id} ELSE {})

\* May the block being encoded for stream_id refer to an entry the peer has
\* not acknowledged?  Only within the budget of blocked streams.
MayBlock(encoder, stream_id, ric) ==
  \/ stream_id \in BlockingStreams(encoder, stream_id, ric)
  \/ Cardinality(BlockingStreams(encoder, stream_id, ric)) < encoder.max_blocked

\* One header of encode: a reference to an entry that holds it, else an
\* insertion and a reference to the new entry, else a literal.  acc holds
\* the encoder, the header block and the encoder-stream bytes written so
\* far, and the entries the block refers to.
EncodeField(acc, stream_id, nv) ==
  LET e == acc.encoder
      ric == RequiredInsertCount(acc.refs)
      found == Positions(e.table, nv)
      entry == e.table[SetMax(found)]
      room == Evict(e.table, e.cap - EntrySize(nv),
                    Referenced(e) \cup acc.refs)
  IN
  IF found # {}
    THEN IF entry.abs < e.krc \/ MayBlock(e, stream_id, ric)
           THEN [acc EXCEPT !.rbuf = Append(@, Indexed(entry.abs)),
                            !.refs = @ \cup {entry.abs}]
           ELSE [acc EXCEPT !.rbuf = Append(@, Literal(nv))]
  ELSE IF MayBlock(e, stream_id, ric) /\ room.ok
    THEN [acc EXCEPT
            !.encoder.table = Append(room.table, [abs |-> e.icnt, nv |-> nv]),
            !.encoder.icnt = @ + 1,
            !.ebuf = Append(@, Insert(nv)),
            !.rbuf = Append(@, Indexed(e.icnt)),
            !.refs = @ \cup {e.icnt}]
  ELSE [acc EXCEPT !.rbuf = Append(@, Literal(nv))]

RECURSIVE EncodeFields(_, _, _)
EncodeFields(acc, stream_id, nva) ==
  IF nva = <<>> THEN acc
  ELSE EncodeFields(EncodeField(acc, stream_id, Head(nva)), stream_id, Tail(nva))

\* A capacity asked for through set_max_dtable_capacity takes effect, and
\* is announced on the encoder stream, at the next encode that can shrink
\* the table to it without evicting a referenced entry.
ApplyCapacity(encoder) ==
  LET r == Evict(encoder.table, encoder.max_dtable_capacity, Referenced(encoder))
  IN IF encoder.max_dtable_capacity # encoder.cap /\ r.ok
       THEN [encoder |-> [encoder EXCEPT !.cap = encoder.max_dtable_capacity,
                                         !.table = r.table],
             ebuf |-> <<SetCapacity(encoder.max_dtable_capacity)>>]
       ELSE [encoder |-> encoder, ebuf |-> <<>>]

\* nghttp3_qpack_encoder_encode: the header block prefix, the header block
\* and the encoder-stream bytes for nva on stream_id.
nghttp3_qpack_encoder_encode(encoder, stream_id, nva, failure) ==
  IF failure # NoFailure
    THEN [rv |-> failure, encoder |-> encoder,
          pbuf |-> <<>>, rbuf |-> <<>>, ebuf |-> <<>>]
  ELSE LET c == ApplyCapacity(encoder)
           acc == EncodeFields([encoder |-> c.encoder, rbuf |-> <<>>,
                                ebuf |-> c.ebuf, refs |-> {}],
                               stream_id, nva)
           ric == RequiredInsertCount(acc.refs)
       IN [rv |-> 0,
           encoder |-> IF ric = 0 THEN acc.encoder
                       ELSE [acc.encoder EXCEPT !.blocks[stream_id] =
                               Append(@, [ric |-> ric, refs |-> acc.refs])],
           pbuf |-> <<Prefix(ric)>>, rbuf |-> acc.rbuf, ebuf |-> acc.ebuf]

\* One decoder-stream instruction: an acknowledgement releases the oldest
\* unacknowledged block of the stream and raises the acknowledged insert
\* count; a cancellation releases every block of the stream.
ReadDecoderInstruction(encoder, t) ==
  IF t.kind = "ack" /\ t.idx \in QpackStreamIds /\ encoder.blocks[t.idx] # <<>>
    THEN [ok |-> TRUE,
          encoder |-> [encoder EXCEPT
                         !.krc = IF Head(encoder.blocks[t.idx]).ric > @
                                   THEN Head(encoder.blocks[t.idx]).ric ELSE @,
                         !.blocks[t.idx] = Tail(@)]]
  ELSE IF t.kind = "cancel" /\ t.idx \in QpackStreamIds
    THEN [ok |-> TRUE, encoder |-> [encoder EXCEPT !.blocks[t.idx] = <<>>]]
  ELSE [ok |-> FALSE, encoder |-> encoder]

RECURSIVE ReadDecoderInstructions(_, _)
ReadDecoderInstructions(encoder, src) ==
  IF src = <<>> THEN [ok |-> TRUE, encoder |-> encoder]
  ELSE LET r == ReadDecoderInstruction(encoder, Head(src)) IN
       IF r.ok THEN ReadDecoderInstructions(r.encoder, Tail(src)) ELSE r

\* nghttp3_qpack_encoder_read_decoder: the bytes consumed, or QPACK_FATAL on
\* an instruction that is corrupt or acknowledges nothing.
nghttp3_qpack_encoder_read_decoder(encoder, src, failure) ==
  LET r == ReadDecoderInstructions(encoder, src) IN
  IF failure # NoFailure THEN [rv |-> failure, encoder |-> encoder]
  ELSE IF ~r.ok THEN [rv |-> NGHTTP3_ERR_QPACK_FATAL, encoder |-> encoder]
  ELSE [rv |-> Len(src), encoder |-> r.encoder]

nghttp3_qpack_encoder_set_max_dtable_capacity(encoder, cap) ==
  [encoder EXCEPT !.max_dtable_capacity = cap]

nghttp3_qpack_encoder_set_max_blocked_streams(encoder, num) ==
  [encoder EXCEPT !.max_blocked = num]

nghttp3_qpack_encoder_get_num_blocked_streams(encoder) ==
  Cardinality({s \in QpackStreamIds :
     \E i \in 1..Len(encoder.blocks[s]) : encoder.blocks[s][i].ric > encoder.krc})

(* ---------------------------- wrapped decoder -------------------------- *)
\* nghttp3_qpack_decoder_new: an empty table of capacity 0 until the peer
\* announces one (at most max_dtable_capacity); icnt is the insert count;
\* dbuf holds the decoder-stream instructions not yet written out; streams
\* are the streams with a header block in progress.
nghttp3_qpack_decoder_new(max_capacity, max_blocked) ==
  [type |-> "decoder", table |-> <<>>, icnt |-> 0, cap |-> 0,
   max_dtable_capacity |-> max_capacity,
   hard_max_dtable_capacity |-> max_capacity,
   max_blocked |-> max_blocked, dbuf |-> <<>>, streams |-> {}]

\* One encoder-stream instruction: an insertion evicts the oldest entries
\* to make room and raises the insert count; a capacity update shrinks the
\* table.  An entry larger than the capacity, a capacity above the
\* decoder's maximum and bytes that are no instruction are fatal.
ReadEncoderInstruction(decoder, t) ==
  LET nv == NV(t.name, t.value)
      room == Evict(decoder.table, decoder.cap - EntrySize(nv), {})
  IN
  IF t.kind = "insert" /\ room.ok
    THEN [ok |-> TRUE,
          decoder |-> [decoder EXCEPT
                         !.table = Append(room.table,
                                          [abs |-> decoder.icnt, nv |-> nv]),
                         !.icnt = @ + 1]]
  ELSE IF t.kind = "capacity" /\ t.idx <= decoder.max_dtable_capacity
    THEN [ok |-> TRUE,
          decoder |-> [decoder EXCEPT
                         !.cap = t.idx,
                         !.table = Evict(decoder.table, t.idx, {}).table]]
  ELSE [ok |-> FALSE, decoder |-> decoder]

\* The instructions are applied in arrival order, up to the first that is
\* fatal.
RECURSIVE ReadEncoderInstructions(_, _)
ReadEncoderInstructions(decoder, src) ==
  IF src = <<>> THEN [ok |-> TRUE, decoder |-> decoder]
  ELSE LET r == ReadEncoderInstruction(decoder, Head(src)) IN
       IF r.ok THEN ReadEncoderInstructions(r.decoder, Tail(src)) ELSE r

\* nghttp3_qpack_decoder_read_encoder: the bytes consumed, or QPACK_FATAL.
\* An allocation failure leaves no partial state.  Whether the instructions
\* before a fatal one stay applied is not laid down: partial tells which of
\* the two the decoder does.
nghttp3_qpack_decoder_read_encoder(decoder, src, failure, partial) ==
  LET r == ReadEncoderInstructions(decoder, src) IN
  IF failure # NoFailure THEN [rv |-> failure, decoder |-> decoder]
  ELSE IF ~r.ok
    THEN [rv |-> NGHTTP3_ERR_QPACK_FATAL,
          decoder |-> IF partial THEN r.decoder ELSE decoder]
  ELSE [rv |-> Len(src), decoder |-> r.decoder]

\* nghttp3_qpack_stream_context_new: the cursor of one stream's header
\* block; it waits for the prefix, is blocked on the required insert count
\* ric, or reads fields.
nghttp3_qpack_stream_context_new(stream_id) ==
  [type |-> "sctx", stream_id |-> stream_id, state |-> "prefix", ric |-> 0]

\* A field could not be read.
NoNV == NV("", "")
\* nv.token of a header that is not in the static table.
NoToken == -1

\* The fields of a header block whose required insert count is reached:
\* the next field is emitted; at the end of the input the block is final
\* if fin is set, and is then acknowledged on the decoder stream when it
\* referred to the table.  base is what the call has consumed before.
ReadFields(decoder, sctx, src, fin, base) ==
  LET t == Head(src)
      at == {i \in 1..Len(decoder.table) : decoder.table[i].abs = t.idx}
      reading == [sctx EXCEPT !.state = "fields"]
      known == [decoder EXCEPT !.streams = @ \cup {sctx.stream_id}]
  IN
  IF src = <<>>
    THEN IF fin
           THEN [rv |-> base, flags |-> {"FINAL"}, nv |-> NoNV, sctx |-> reading,
                 decoder |-> [decoder EXCEPT
                    !.streams = @ \ {sctx.stream_id},
                    !.dbuf = IF sctx.ric > 0
                               THEN Append(@, SectionAck(sctx.stream_id))
                               ELSE @]]
           ELSE [rv |-> base, flags |-> {}, nv |-> NoNV, sctx |-> reading,
                 decoder |-> known]
  ELSE IF t.kind = "indexed" /\ at # {}
    THEN [rv |-> base + 1, flags |-> {"EMIT"},
          nv |-> decoder.table[CHOOSE i \in at : TRUE].nv,
          sctx |-> reading, decoder |-> known]
  ELSE IF t.kind = "literal"
    THEN [rv |-> base + 1, flags |-> {"EMIT"}, nv |-> NV(t.name, t.value),
          sctx |-> reading, decoder |-> known]
  ELSE [rv |-> NGHTTP3_ERR_QPACK_FATAL, flags |-> {}, nv |-> NoNV,
        sctx |-> sctx, decoder |-> decoder]

\* A header block is blocked while its required insert count exceeds the
\* decoder's insert count.
IsBlocked_at_equal(ric, icnt) == ric >= icnt
IsBlocked(ric, icnt) == ric > icnt

\* nghttp3_qpack_decoder_read_request: reads src up to the next field.  The
\* block is blocked while its required insert count exceeds the decoder's
\* insert count; the prefix is consumed when it is read.
nghttp3_qpack_decoder_read_request(decoder, sctx, src, fin) ==
  LET known == [decoder EXCEPT !.streams = @ \cup {sctx.stream_id}]
      fatal == [rv |-> NGHTTP3_ERR_QPACK_FATAL, flags |-> {}, nv |-> NoNV,
                sctx |-> sctx, decoder |-> decoder]
  IN
  IF sctx.state = "prefix"
    THEN IF src = <<>>
           THEN IF fin THEN fatal
                ELSE [rv |-> 0, flags |-> {}, nv |-> NoNV, sctx |-> sctx,
                      decoder |-> known]
         ELSE IF Head(src).kind # "prefix" THEN fatal
         ELSE IF IsBlocked(Head(src).idx, decoder.icnt)
           THEN [rv |-> 1, flags |-> {"BLOCKED"}, nv |-> NoNV,
                 sctx |-> [sctx EXCEPT !.state = "blocked",
                                       !.ric = Head(src).idx],
                 decoder |-> known]
         ELSE ReadFields(decoder, [sctx EXCEPT !.ric = Head(src).idx],
                         Tail(src), fin, 1)
  ELSE IF sctx.state = "blocked" /\ IsBlocked(sctx.ric, decoder.icnt)
    THEN [rv |-> 0, flags |-> {"BLOCKED"}, nv |-> NoNV, sctx |-> sctx,
          decoder |-> decoder]
  ELSE ReadFields(decoder, sctx, src, fin, 0)

\* nghttp3_qpack_decoder_cancel_stream: a cancellation instruction for a
\* stream with a header block in progress, STREAM_NOT_FOUND for another.
nghttp3_qpack_decoder_cancel_stream_any(decoder, stream_id, failure) == [rv |-> 0, decoder |-> [decoder EXCEPT !.streams = @ \ {stream_id}, !.dbuf = Append(@, StreamCancel(stream_id))]]
nghttp3_qpack_decoder_cancel_stream(decoder, stream_id, failure) ==
  IF stream_id \notin decoder.streams
    THEN [rv |-> NGHTTP3_ERR_STREAM_NOT_FOUND, decoder |-> decoder]
  ELSE IF failure # NoFailure THEN [rv |-> failure, decoder |-> decoder]
  ELSE [rv |-> 0,
        decoder |-> [decoder EXCEPT !.streams = @ \ {stream_id},
                                    !.dbuf = Append(@, StreamCancel(stream_id))]]

\* nghttp3_qpack_decoder_set_max_dtable_capacity: at most the capacity the
\* decoder was created with.
nghttp3_qpack_decoder_set_max_dtable_capacity(decoder, cap) ==
  IF cap > decoder.hard_max_dtable_capacity
    THEN [rv |-> NGHTTP3_ERR_INVALID_ARGUMENT, decoder |-> decoder]
    ELSE [rv |-> 0, decoder |-> [decoder EXCEPT !.max_dtable_capacity = cap]]

nghttp3_qpack_decoder_get_decoder_streamlen(decoder) == Len(decoder.dbuf)

\* nghttp3_qpack_decoder_write_decoder: hands out the waiting instructions.
nghttp3_qpack_decoder_write_decoder(decoder) ==
  [dbuf |-> decoder.dbuf, decoder |-> [decoder EXCEPT !.dbuf = <<>>]]

nghttp3_qpack_decoder_get_icnt_live(decoder) == Len(decoder.table)
nghttp3_qpack_decoder_get_icnt(decoder) == decoder.icnt

(* ------------------------ QPACK::Encoder object ------------------------ *)
\* A pointer that is NULL; the engines and cursors carry a type of their own.
QNULL == [type |-> "NULL"]
IsNull(ptr) == ptr.type = "NULL"
\* rb_ary_new with its elements.
RArray(items) == [type |-> "Array", items |-> items]

\* The outcome of a call on a QPACK object: what it returned, or the
\* exception class it raised.
QpackReturn(op, v) == qret' = [op |-> op, raised |-> "none", val |-> v]
QpackRaise(op, cls) == qret' = [op |-> op, raised |-> cls, val |-> Qnil]
nghttp3_rb_raise_qpack(op, error_code) ==
  QpackRaise(op, nghttp3_rb_error_class_for_code(error_code))

\* encoder.encode(stream_id, headers) -> {prefix:, data:, encoder_stream:}
rb_nghttp3_qpack_encoder_encode(rb_stream_id, rb_headers, failure) ==
  /\ UNCHANGED <<cvars, decoding, sctx_mem, DecoderObj>>
  /\ IF IsNull(EncoderObj.encoder)
       THEN /\ QpackRaise("encode", "InvalidStateError")
            /\ UNCHANGED EncoderObj
       ELSE LET r == nghttp3_qpack_encoder_encode(EncoderObj.encoder,
                                                  rb_stream_id, rb_headers,
                                                  failure)
            IN
            /\ EncoderObj' = [EncoderObj EXCEPT !.encoder = r.encoder]
            /\ IF r.rv # 0
                 THEN nghttp3_rb_raise_qpack("encode", r.rv)
                 ELSE QpackReturn("encode",
                        [type |-> "Hash", prefix |-> r.pbuf, data |-> r.rbuf,
                         encoder_stream |-> r.ebuf])

\* encoder.read_decoder(data) -> bytes consumed
rb_nghttp3_qpack_encoder_read_decoder_dropped(rb_data, failure) == UNCHANGED <<cvars, decoding, sctx_mem, DecoderObj, EncoderObj>> /\ QpackReturn("read_decoder", LL2NUM(Len(rb_data)))
rb_nghttp3_qpack_encoder_read_decoder(rb_data, failure) ==
  /\ UNCHANGED <<cvars, decoding, sctx_mem, DecoderObj>>
  /\ IF IsNull(EncoderObj.encoder)
       THEN /\ QpackRaise("read_decoder", "InvalidStateError")
            /\ UNCHANGED EncoderObj
       ELSE LET r == nghttp3_qpack_encoder_read_decoder(EncoderObj.encoder,
                                                        rb_data, failure)
            IN
            /\ EncoderObj' = [EncoderObj EXCEPT !.encoder = r.encoder]
            /\ IF r.rv < 0
                 THEN nghttp3_rb_raise_qpack("read_decoder", r.rv)
                 ELSE QpackReturn("read_decoder", LL2NUM(r.rv))

\* encoder.max_dtable_capacity = capacity
rb_nghttp3_qpack_encoder_set_max_dtable_capacity(rb_cap) ==
  /\ UNCHANGED <<cvars, decoding, sctx_mem, DecoderObj>>
  /\ IF IsNull(EncoderObj.encoder)
       THEN /\ QpackRaise("encoder.max_dtable_capacity=", "InvalidStateError")
            /\ UNCHANGED EncoderObj
       ELSE /\ EncoderObj' = [EncoderObj EXCEPT !.encoder =
                 nghttp3_qpack_encoder_set_max_dtable_capacity(@, rb_cap)]
            /\ QpackReturn("encoder.max_dtable_capacity=", LL2NUM(rb_cap))

\* encoder.max_blocked_streams = num
rb_nghttp3_qpack_encoder_set_max_blocked_streams(rb_num) ==
  /\ UNCHANGED <<cvars, decoding, sctx_mem, DecoderObj>>
  /\ IF IsNull(EncoderObj.encoder)
       THEN /\ QpackRaise("max_blocked_streams=", "InvalidStateError")
            /\ UNCHANGED EncoderObj
       ELSE /\ EncoderObj' = [EncoderObj EXCEPT !.encoder =
                 nghttp3_qpack_encoder_set_max_blocked_streams(@, rb_num)]
            /\ QpackReturn("max_blocked_streams=", LL2NUM(rb_num))

\* encoder.num_blocked_streams -> Integer
rb_nghttp3_qpack_encoder_get_num_blocked_streams ==
  /\ UNCHANGED <<cvars, decoding, sctx_mem, DecoderObj, EncoderObj>>
  /\ IF IsNull(EncoderObj.encoder)
       THEN QpackRaise("num_blocked_streams", "InvalidStateError")
       ELSE QpackReturn("num_blocked_streams",
              LL2NUM(nghttp3_qpack_encoder_get_num_blocked_streams(
                       EncoderObj.encoder)))

(* ------------------------ QPACK::Decoder object ------------------------ *)
\* The addresses at which the engine allocates cursors.
Addresses == {8, 16}
\* ULL2NUM of an address: an Integer, whose VALUE is the tagged number.
ULL2NUM(p) == 2 * p + 1
\* NUM2ULL of such an Integer: the number it stands for.
NUM2ULL(v) == (v - 1) \div 2
\* No Integer is stored for a stream (0 stands for a missing Hash entry),
\* no cursor is allocated, nothing was released.
SctxMemInit ==
  [ctx_val |-> [s \in QpackStreamIds |-> 0], live |-> {}, wild |-> {},
   freed |-> FALSE]
\* The address of a newly allocated cursor: the lowest one that is free.
sctx_alloc(mem) ==
  CHOOSE p \in Addresses \ mem.live : \A q \in Addresses \ mem.live : p <= q
\* nghttp3_qpack_stream_context_del(sctx): the cursor at sctx is released;
\* a value that is not the handle of an allocated cursor is noted.
nghttp3_qpack_stream_context_del(mem, sctx) ==
  IF sctx \in mem.live
    THEN [mem EXCEPT !.live = @ \ {sctx}]
    ELSE [mem EXCEPT !.wild = @ \cup {sctx}]

\* Faulty variant of get_or_create_stream_context: a stored cursor is not
\* looked up, every call allocates a new one.  C26 must fail on it.
get_or_create_stream_context_always_new(stream_id, failure) == LET sctx == nghttp3_qpack_stream_context_new(stream_id) ptr == sctx_alloc(sctx_mem) IN IF failure # NoFailure THEN [sctx |-> QNULL, ptr |-> 0, stream_contexts |-> DecoderObj.stream_contexts, mem |-> sctx_mem] ELSE [sctx |-> sctx, ptr |-> ptr, stream_contexts |-> [DecoderObj.stream_contexts EXCEPT ![stream_id] = sctx], mem |-> [sctx_mem EXCEPT !.live = @ \cup {ptr}, !.ctx_val[stream_id] = ULL2NUM(ptr)]]

\* get_or_create_stream_context: the cursor whose handle is stored for
\* stream_id, else a new one, whose handle is stored as an Integer; NULL
\* when it cannot be allocated.
get_or_create_stream_context(stream_id, failure) ==
  LET existing == DecoderObj.stream_contexts[stream_id]
      sctx == nghttp3_qpack_stream_context_new(stream_id)
      ptr == sctx_alloc(sctx_mem)
  IN
  IF ~NIL_P(existing)
    THEN [sctx |-> existing, ptr |-> NUM2ULL(sctx_mem.ctx_val[stream_id]),
          stream_contexts |-> DecoderObj.stream_contexts, mem |-> sctx_mem]
  ELSE IF failure # NoFailure
    THEN [sctx |-> QNULL, ptr |-> 0,
          stream_contexts |-> DecoderObj.stream_contexts, mem |-> sctx_mem]
  ELSE [sctx |-> sctx, ptr |-> ptr,
        stream_contexts |->
          [DecoderObj.stream_contexts EXCEPT ![stream_id] = sctx],
        mem |-> [sctx_mem EXCEPT !.live = @ \cup {ptr},
                                 !.ctx_val[stream_id] = ULL2NUM(ptr)]]

\* The removal of a stream's cursor in decode and cancel_stream: the
\* Integer stored for the stream is converted back to the handle, the
\* cursor is released and the Hash entry deleted.
remove_stream_context(mem, stream_id) ==
  LET ctx_val == mem.ctx_val[stream_id] IN
  IF ctx_val = 0 THEN mem
  ELSE [nghttp3_qpack_stream_context_del(mem, NUM2ULL(ctx_val))
          EXCEPT !.ctx_val[stream_id] = 0]

\* An emitted header is pushed onto the headers array as a hash of its
\* name, value and token.
PushHeader_front(headers, nv) == <<[name |-> nv.name, value |-> nv.value, token |-> NoToken]>> \o headers
PushHeader(headers, nv) ==
  Append(headers, [name |-> nv.name, value |-> nv.value, token |-> NoToken])

\* The loop of decode: one nghttp3_qpack_decoder_read_request per round,
\* until the input is used up, the block is blocked or final, or the
\* engine fails.  acc holds the decoder, the cursor, whether the cursor was
\* torn down, the headers emitted, the bytes consumed, the blocked flag and
\* the engine's error.
RECURSIVE DecodeLoop(_, _, _)
DecodeLoop(acc, src, fin) ==
  IF ~(Len(src) > 0 \/ fin) THEN acc
  ELSE
    LET r == nghttp3_qpack_decoder_read_request(acc.decoder, acc.sctx, src, fin)
        rest == SubSeq(src, r.rv + 1, Len(src))
        read == [acc EXCEPT !.decoder = r.decoder, !.sctx = r.sctx,
                            !.total_consumed = @ + r.rv]
        emitted == IF "EMIT" \in r.flags
                     THEN [read EXCEPT !.headers = PushHeader(@, r.nv)]
                     ELSE read
    IN
    IF r.rv < 0 THEN [acc EXCEPT !.rv = r.rv]
    ELSE IF "BLOCKED" \in r.flags THEN [read EXCEPT !.blocked = TRUE]
    ELSE IF "FINAL" \in r.flags THEN [emitted EXCEPT !.final = TRUE]
    ELSE IF r.rv = 0 /\ Len(rest) = 0 THEN emitted
    ELSE DecodeLoop(emitted, rest, fin)

\* The result of decode, built from what the loop left: no header list
\* when the block is blocked.
DecodeResult_partial(r) == [type |-> "Hash", headers |-> RArray(r.headers), blocked |-> IF r.blocked THEN Qtrue ELSE Qfalse, consumed |-> LL2NUM(r.total_consumed)]
DecodeResult(r) ==
  [type |-> "Hash",
   headers |-> IF r.blocked THEN Qnil ELSE RArray(r.headers),
   blocked |-> IF r.blocked THEN Qtrue ELSE Qfalse,
   consumed |-> LL2NUM(r.total_consumed)]

\* decoder.decode(stream_id, data, fin: false)
\*   -> {headers:, blocked:, consumed:}
rb_nghttp3_qpack_decoder_decode(rb_stream_id, rb_data, rb_fin, failure) ==
  /\ UNCHANGED <<cvars, decoding, EncoderObj>>
  /\ IF IsNull(DecoderObj.decoder)
       THEN /\ QpackRaise("decode", "InvalidStateError")
            /\ UNCHANGED <<DecoderObj, sctx_mem>>
       ELSE
         LET c == get_or_create_stream_context(rb_stream_id, failure)
             r == DecodeLoop([decoder |-> DecoderObj.decoder, sctx |-> c.sctx,
                              final |-> FALSE, headers |-> <<>>,
                              total_consumed |-> 0, blocked |-> FALSE,
                              rv |-> 0],
                             rb_data, rb_fin)
         IN
         IF IsNull(c.sctx)
           THEN /\ QpackRaise("decode", "NoMemError")
                /\ UNCHANGED <<DecoderObj, sctx_mem>>
           ELSE /\ DecoderObj' =
                     [DecoderObj EXCEPT
                        !.decoder = r.decoder,
                        !.stream_contexts =
                           [c.stream_contexts EXCEPT ![rb_stream_id] =
                              IF r.final THEN Qnil ELSE r.sctx]]
                /\ sctx_mem' = IF r.final
                                 THEN remove_stream_context(c.mem, rb_stream_id)
                                 ELSE c.mem
                /\ IF r.rv < 0
                     THEN nghttp3_rb_raise_qpack("decode", r.rv)
                     ELSE QpackReturn("decode", DecodeResult(r))

\* decoder.read_encoder(data) -> bytes consumed
rb_nghttp3_qpack_decoder_read_encoder(rb_data, failure, partial) ==
  /\ UNCHANGED <<cvars, decoding, sctx_mem, EncoderObj>>
  /\ IF IsNull(DecoderObj.decoder)
       THEN /\ QpackRaise("read_encoder", "InvalidStateError")
            /\ UNCHANGED DecoderObj
       ELSE LET r == nghttp3_qpack_decoder_read_encoder(DecoderObj.decoder,
                                                        rb_data, failure,
                                                        partial)
            IN
            /\ DecoderObj' = [DecoderObj EXCEPT !.decoder = r.decoder]
            /\ IF r.rv < 0
                 THEN nghttp3_rb_raise_qpack("read_encoder", r.rv)
                 ELSE QpackReturn("read_encoder", LL2NUM(r.rv))

\* decoder.decoder_stream_data -> String
rb_nghttp3_qpack_decoder_decoder_stream_data ==
  /\ UNCHANGED <<cvars, decoding, sctx_mem, EncoderObj>>
  /\ IF IsNull(DecoderObj.decoder)
       THEN /\ QpackRaise("decoder_stream_data", "InvalidStateError")
            /\ UNCHANGED DecoderObj
     ELSE IF nghttp3_qpack_decoder_get_decoder_streamlen(DecoderObj.decoder) = 0
       THEN /\ QpackReturn("decoder_stream_data",
                           [type |-> "String", bytes |-> <<>>])
            /\ UNCHANGED DecoderObj
     ELSE LET r == nghttp3_qpack_decoder_write_decoder(DecoderObj.decoder) IN
          /\ DecoderObj' = [DecoderObj EXCEPT !.decoder = r.decoder]
          /\ QpackReturn("decoder_stream_data",
                         [type |-> "String", bytes |-> r.dbuf])

\* decoder.cancel_stream(stream_id) -> nil
rb_nghttp3_qpack_decoder_cancel_stream(rb_stream_id, failure) ==
  /\ UNCHANGED <<cvars, decoding, EncoderObj>>
  /\ IF IsNull(DecoderObj.decoder)
       THEN /\ QpackRaise("cancel_stream", "InvalidStateError")
            /\ UNCHANGED <<DecoderObj, sctx_mem>>
       ELSE LET r == nghttp3_qpack_decoder_cancel_stream(DecoderObj.decoder,
                                                         rb_stream_id, failure)
            IN
            /\ sctx_mem' = remove_stream_context(sctx_mem, rb_stream_id)
            /\ DecoderObj' =
                 [DecoderObj EXCEPT !.decoder = r.decoder,
                                    !.stream_contexts[rb_stream_id] = Qnil]
            /\ IF r.rv # 0
                 THEN nghttp3_rb_raise_qpack("cancel_stream", r.rv)
                 ELSE QpackReturn("cancel_stream", Qnil)

\* decoder.max_dtable_capacity = capacity
rb_nghttp3_qpack_decoder_set_max_dtable_capacity(rb_cap) ==
  /\ UNCHANGED <<cvars, decoding, sctx_mem, EncoderObj>>
  /\ IF IsNull(DecoderObj.decoder)
       THEN /\ QpackRaise("decoder.max_dtable_capacity=", "InvalidStateError")
            /\ UNCHANGED DecoderObj
       ELSE LET r == nghttp3_qpack_decoder_set_max_dtable_capacity(
                       DecoderObj.decoder, rb_cap)
            IN
            /\ DecoderObj' = [DecoderObj EXCEPT !.decoder = r.decoder]
            /\ IF r.rv # 0
                 THEN nghttp3_rb_raise_qpack("decoder.max_dtable_capacity=", r.rv)
                 ELSE QpackReturn("decoder.max_dtable_capacity=", LL2NUM(rb_cap))

\* decoder.insert_count -> Integer
rb_nghttp3_qpack_decoder_get_insert_count ==
  /\ UNCHANGED <<cvars, decoding, sctx_mem, EncoderObj, DecoderObj>>
  /\ IF IsNull(DecoderObj.decoder)
       THEN QpackRaise("insert_count", "InvalidStateError")
       ELSE QpackReturn("insert_count",
              LL2NUM(nghttp3_qpack_decoder_get_icnt(DecoderObj.decoder)))

(* ------------------------------ the caller ----------------------------- *)
\* The caller carries bytes between the two objects.  wire holds the
\* encoder-stream bytes not yet read by the decoder (estream), the
\* decoder-stream bytes not yet read by the encoder (dstream) and, for each
\* stream, the bytes of its header block not yet consumed by decode
\* (block), the header list that block was encoded from (sent), the headers
\* decode has returned for it so far (got), whether the block is still to
\* be finished (busy); failed is set once a call has failed fatally, and the
\* caller then gives the two objects up; last holds the arguments of the
\* call just made, and the state the stream's cursor was in before it.
WireInit ==
  [estream |-> <<>>, dstream |-> <<>>,
   block |-> [s \in QpackStreamIds |-> <<>>],
   sent |-> [s \in QpackStreamIds |-> <<>>],
   got |-> [s \in QpackStreamIds |-> <<>>],
   busy |-> [s \in QpackStreamIds |-> FALSE],
   failed |-> FALSE,
   last |-> [stream_id |-> -1, len |-> 0, fin |-> FALSE, cursor |-> "none"]]

\* The arguments of a call: the stream, the length of the data, the flag.
Args(stream_id, len, fin) == [stream_id |-> stream_id, len |-> len, fin |-> fin, cursor |-> "none"]
\* The state of the cursor of stream_id, "none" without one.
CursorState(stream_id) ==
  IF NIL_P(DecoderObj.stream_contexts[stream_id]) THEN "none"
  ELSE DecoderObj.stream_contexts[stream_id].state
CursorBlocked(stream_id) == CursorState(stream_id) = "blocked"
NoArgs == WireInit.last
Called(args, w) == [w EXCEPT !.last = args]

Drop(bytes, n) == SubSeq(bytes, n + 1, Len(bytes))
\* Is there a decoder-stream instruction about stream_id among bytes?
Mentions(bytes, stream_id) == \E i \in 1..Len(bytes) : bytes[i].idx = stream_id
\* After a call that raised: an allocation failure can be retried, any
\* other error of the compression state is final and the caller drops what
\* it holds.
AfterRaise == IF qret'.raised = "NoMemError" THEN wire
              ELSE [WireInit EXCEPT !.failed = TRUE]

\* A header list is encoded for a stream that has no block under way.
CallerEncode(stream_id, headers) ==
  /\ ~wire.failed /\ ~wire.busy[stream_id]
  /\ EncoderObj.encoder.blocks[stream_id] = <<>>
  /\ ~Mentions(DecoderObj.decoder.dbuf \o wire.dstream, stream_id)
  /\ rb_nghttp3_qpack_encoder_encode(stream_id, headers, NoFailure)
  /\ EncoderObj'.encoder.icnt <= MaxInserts
  /\ wire' = Called(Args(stream_id, Len(headers), FALSE),
             IF qret'.raised # "none" THEN AfterRaise
             ELSE [wire EXCEPT
                     !.estream = @ \o qret'.val.encoder_stream,
                     !.block[stream_id] = qret'.val.prefix \o qret'.val.data,
                     !.sent[stream_id] = headers,
                     !.got[stream_id] = <<>>,
                     !.busy[stream_id] = TRUE])
  /\ Len(wire'.estream) <= MaxEncoderStream

\* The first n encoder-stream bytes in flight, or those and corrupt bytes,
\* are given to the decoder.
CallerReadEncoder(n, corrupt, failure, partial) ==
  /\ ~wire.failed
  /\ n > 0 \/ corrupt
  /\ rb_nghttp3_qpack_decoder_read_encoder(
       SubSeq(wire.estream, 1, n) \o (IF corrupt THEN <<Corrupt>> ELSE <<>>),
       failure, partial)
  /\ wire' = Called(Args(-1, n + (IF corrupt THEN 1 ELSE 0), FALSE),
             IF qret'.raised # "none" THEN AfterRaise
             ELSE [wire EXCEPT !.estream = Drop(@, n)])

\* The first n bytes not yet consumed of a stream's header block are given
\* to decode, with fin only when they are all of them.
CallerDecode(stream_id, n, fin, failure) ==
  /\ ~wire.failed
  /\ fin => n = Len(wire.block[stream_id])
  /\ rb_nghttp3_qpack_decoder_decode(stream_id,
       SubSeq(wire.block[stream_id], 1, n), fin, failure)
  /\ wire' = Called([Args(stream_id, n, fin) EXCEPT
                        !.cursor = CursorState(stream_id)],
             IF qret'.raised # "none" THEN AfterRaise
             ELSE IF NIL_P(DecoderObj'.stream_contexts[stream_id])
               THEN [wire EXCEPT !.block[stream_id] = <<>>,
                                 !.sent[stream_id] = <<>>,
                                 !.got[stream_id] = <<>>,
                                 !.busy[stream_id] = FALSE]
             ELSE [wire EXCEPT
                     !.block[stream_id] = Drop(@, qret'.val.consumed.n),
                     !.got[stream_id] =
                        IF NIL_P(qret'.val.headers) THEN @
                        ELSE @ \o qret'.val.headers.items])

\* The decoder's instructions are put on the decoder stream.
CallerDecoderStreamData ==
  /\ ~wire.failed
  /\ rb_nghttp3_qpack_decoder_decoder_stream_data
  /\ wire' = Called(NoArgs,
             IF qret'.raised # "none" THEN AfterRaise
             ELSE [wire EXCEPT !.dstream = @ \o qret'.val.bytes])
  /\ Len(wire'.dstream) <= MaxDecoderStream

\* The first n decoder-stream bytes in flight are given to the encoder.
CallerReadDecoder(n) ==
  /\ ~wire.failed
  /\ rb_nghttp3_qpack_encoder_read_decoder(SubSeq(wire.dstream, 1, n), NoFailure)
  /\ wire' = Called(Args(-1, n, FALSE),
             IF qret'.raised # "none" THEN AfterRaise
             ELSE [wire EXCEPT !.dstream = Drop(@, n)])

\* A stream is aborted: its cursor is cancelled and the rest of its header
\* block thrown away.
CallerCancelStream(stream_id) ==
  /\ ~wire.failed
  /\ rb_nghttp3_qpack_decoder_cancel_stream(stream_id, NoFailure)
  /\ Len(DecoderObj'.decoder.dbuf) <= MaxDecoderStream
  /\ wire' = Called([Args(stream_id, 0, FALSE) EXCEPT
                        !.cursor = CursorState(stream_id)],
             IF qret'.raised # "none" THEN wire
             ELSE [wire EXCEPT !.block[stream_id] = <<>>,
                               !.sent[stream_id] = <<>>,
                               !.got[stream_id] = <<>>,
                               !.busy[stream_id] = FALSE])

\* The options are set and the counters read while the objects are in use.
CallerEncoderOption(limits) ==
  /\ ~wire.failed
  /\ \/ \E cap \in DtableCapacities :
          rb_nghttp3_qpack_encoder_set_max_dtable_capacity(cap)
     \/ \E num \in limits :
          rb_nghttp3_qpack_encoder_set_max_blocked_streams(num)
     \/ rb_nghttp3_qpack_encoder_get_num_blocked_streams
  /\ wire' = Called(NoArgs, wire)

CallerDecoderOption ==
  /\ ~wire.failed
  /\ \/ \E cap \in {SetMax(DtableCapacities), ExcessCapacity} :
          rb_nghttp3_qpack_decoder_set_max_dtable_capacity(cap)
     \/ rb_nghttp3_qpack_decoder_get_insert_count
  /\ wire' = Called(NoArgs, wire)

(* ---------------------------- specification ---------------------------- *)
\* The events the engine finds in the data of one read_stream call.
MaxEvents == 2
ReadEvents == {"recv_data", "end_stream"}
EventSeqs ==
  UNION {[1..n -> ReadEvents] : n \in 0..MaxEvents}
\* Every handler returns.
Quiet(ev) == [i \in 1..Len(ev) |-> "return"]

\* connection_alloc followed by client_new / server_new, called with
\* rb_callbacks; the QPACK objects beside it.
ConnectionInit(rb_callbacks) ==
  /\ conn = "conn"
  /\ is_closed = FALSE
  /\ is_server \in BOOLEAN
  /\ stream_data_readers = [s \in StreamIds |-> Qnil]
  /\ stream_user_data = [s \in StreamIds |-> Qnil]
  /\ pending_data = [s \in StreamIds |-> <<>>]
  /\ eng = EngInit
  /\ ret = [op |-> IF is_server THEN "server_new" ELSE "client_new",
            raised |-> "none", val |-> Qself, cb |-> NoCall, n |-> 0]
  \* encoder_alloc and Encoder.new, decoder_alloc and Decoder.new.
  /\ EncoderObj =
       [encoder |-> nghttp3_qpack_encoder_new(SetMax(DtableCapacities)),
        hard_max_dtable_capacity |-> SetMax(DtableCapacities)]
  /\ DecoderObj =
       [decoder |-> nghttp3_qpack_decoder_new(SetMax(DtableCapacities),
                                              SetMax(BlockedLimits)),
        stream_contexts |-> [s \in QpackStreamIds |-> Qnil],
        hard_max_dtable_capacity |-> SetMax(DtableCapacities),
        max_blocked_streams |-> SetMax(BlockedLimits)]
  /\ wire = WireInit
  /\ qret = [op |-> "new", raised |-> "none", val |-> Qself]
  /\ callbacks = rb_callbacks
  /\ app = NoApp
  /\ conn_mem = ConnMemInit
  /\ sctx_mem = SctxMemInit
  /\ decoding = DecodeIdle

\* A connection created without a Callbacks object.
Init == ConnectionInit(Qnil)

\* The public calls, with their arguments and the engine's and the body
\* Proc's answers drawn from the sets above.
Next ==
  \/ \E sid \in ControlIds : rb_nghttp3_connection_bind_control_stream(sid)
  \/ \E ids \in QpackIds : rb_nghttp3_connection_bind_qpack_streams(ids)
  \/ rb_nghttp3_connection_close
  \/ rb_nghttp3_connection_closed_p
  \/ rb_nghttp3_connection_server_p
  \/ rb_nghttp3_connection_client_p
  \/ \E sid \in StreamIds, data \in Strings, f \in Failures :
       \E ev \in EventSeqs :
         rb_nghttp3_connection_read_stream(sid, data, f, ev, Quiet(ev))
  \/ \E sid \in (IF ConnClosed \/ Pullable = {} THEN {NoStreamId}
                                                ELSE Pullable),
        res \in ProcResults :
       /\ rb_nghttp3_connection_writev_stream(sid, res)
       /\ \A s \in StreamIds : Len(pending_data'[s]) <= MaxPending
  \/ \E sid \in StreamIds, n \in 1..MaxOffset, f \in Failures :
       /\ eng.st[sid].wo + n <= MaxOffset
       /\ rb_nghttp3_connection_add_write_offset(sid, n, f)
  \/ \E sid \in StreamIds, n \in 1..MaxOffset, f \in Failures :
       rb_nghttp3_connection_add_ack_offset(sid, n, f, "return")
  \/ \E sid \in StreamIds : rb_nghttp3_connection_block_stream(sid)
  \/ \E sid \in StreamIds, f \in Failures :
       rb_nghttp3_connection_unblock_stream(sid, f)
  \/ \E sid \in StreamIds : rb_nghttp3_connection_stream_writable_p(sid)
  \/ \E sid \in StreamIds : rb_nghttp3_connection_close_stream(sid, "return")
  \/ \E sid \in StreamIds : rb_nghttp3_connection_shutdown_stream_write(sid)
  \/ \E sid \in StreamIds : rb_nghttp3_connection_resume_stream(sid)
  \/ \E sid \in StreamIds, body \in Bodies, blk \in BOOLEAN, f \in Failures :
       rb_nghttp3_connection_submit_request(sid, body, blk, f)
  \/ \E sid \in StreamIds, body \in Bodies, blk \in BOOLEAN, f \in Failures :
       rb_nghttp3_connection_submit_response(sid, body, blk, f)
  \/ \E sid \in StreamIds, f \in Failures :
       rb_nghttp3_connection_submit_info(sid, f)
  \/ \E sid \in StreamIds, f \in Failures :
       rb_nghttp3_connection_submit_trailers(sid, f)
  \/ \E f \in Failures : rb_nghttp3_connection_submit_shutdown_notice(f)
  \/ \E f \in Failures : rb_nghttp3_connection_shutdown(f)
  \/ \E sid \in StreamIds, d \in UserData \cup {Qnil} :
       rb_nghttp3_connection_set_stream_user_data(sid, d)
  \/ \E sid \in StreamIds : rb_nghttp3_connection_get_stream_user_data(sid)

Spec == Init /\ [][Next]_vars

\* connection_free: the collector tears the object down.  It releases the
\* engine when close has not, and frees the object itself.
connection_free ==
  /\ ~conn_mem.freed
  /\ IF conn # NULL /\ ~is_closed
       THEN /\ conn_mem' = [conn_mem EXCEPT !.dels = @ + 1, !.freed = TRUE]
            /\ conn' = NULL
            /\ eng' = EngInit
       ELSE /\ conn_mem' = [conn_mem EXCEPT !.freed = TRUE]
            /\ UNCHANGED <<conn, eng>>
  /\ UNCHANGED <<is_closed, is_server, stream_data_readers, stream_user_data,
                 pending_data, ret, callbacks, app>>
  /\ UNCHANGED qvars

\* The object is reachable: only then can it be called, and only once it
\* is unreachable is it torn down.
Live == ~conn_mem.freed

\* The handlers the application sets.
Handled ==
  {"on_recv_data", "on_end_stream", "on_acked_stream_data", "on_stream_close"}
\* What the handlers called for the events ev do, one choice each.
Doings(ev) == [1..Len(ev) -> HandlerDoes]

\* A connection created with or without a Callbacks object.
CallbackInit == \E rb_callbacks \in {Qnil, callbacks_alloc} :
                  ConnectionInit(rb_callbacks)

\* The application sets handlers, feeds the connection received data,
\* reports written and acknowledged bytes, closes streams and the
\* connection, and finally drops the object.
CallbackNext ==
  \/ \E handler \in Handled : Live /\ rb_nghttp3_callbacks_on(handler)
  \/ \E sid \in StreamIds, data \in Strings, f \in Failures :
       \E ev \in EventSeqs : \E does \in Doings(ev) :
         Live /\ rb_nghttp3_connection_read_stream(sid, data, f, ev, does)
  \/ \E sid \in StreamIds, n \in 1..MaxOffset, f \in Failures :
       /\ Live
       /\ eng.st[sid].wo + n <= MaxOffset
       /\ rb_nghttp3_connection_add_write_offset(sid, n, f)
  \/ \E sid \in StreamIds, n \in 1..MaxOffset, f \in Failures :
       \E does \in HandlerDoes :
         Live /\ rb_nghttp3_connection_add_ack_offset(sid, n, f, does)
  \/ \E sid \in StreamIds, does \in HandlerDoes :
       Live /\ rb_nghttp3_connection_close_stream(sid, does)
  \/ Live /\ rb_nghttp3_connection_close
  \/ Live /\ rb_nghttp3_connection_closed_p
  \/ connection_free

CallbackSpec == CallbackInit /\ [][CallbackNext]_vars

\* What the caller's String holds after the caller modified it in place:
\* it was emptied (clear) or a byte was appended (<<).
Modified(str) == {RString(0), RString(str.len + 1)}

\* The caller modifies the String it passed as body.  submit_request and
\* submit_response registered that very object as the stream's body
\* source, so the registered source now holds the new bytes.
CallerModifiesBody(stream_id, str) ==
  /\ stream_data_readers[stream_id].type = "String"
  /\ str \in Modified(stream_data_readers[stream_id])
  /\ stream_data_readers' = [stream_data_readers EXCEPT ![stream_id] = str]
  /\ UNCHANGED <<conn, is_closed, is_server, stream_user_data, pending_data,
                 eng, ret, callbacks, app, conn_mem>>
  /\ UNCHANGED qvars

\* Requests and responses with a String body: the caller submits, may
\* modify its String afterwards, and pulls the streams' output.
BodyNext ==
  \/ \E sid \in ControlIds : rb_nghttp3_connection_bind_control_stream(sid)
  \/ \E ids \in QpackIds : rb_nghttp3_connection_bind_qpack_streams(ids)
  \/ \E sid \in StreamIds, data \in Strings :
       rb_nghttp3_connection_read_stream(sid, data, NoFailure, <<>>, <<>>)
  \/ \E sid \in StreamIds, body \in Strings, f \in Failures :
       rb_nghttp3_connection_submit_request(sid, body, FALSE, f)
  \/ \E sid \in StreamIds, body \in Strings, f \in Failures :
       rb_nghttp3_connection_submit_response(sid, body, FALSE, f)
  \/ \E sid \in StreamIds, n \in 0..(MaxBodyLen + 1) :
       CallerModifiesBody(sid, RString(n))
  \/ \E sid \in (IF ConnClosed \/ Pullable = {} THEN {NoStreamId}
                                                ELSE Pullable) :
       /\ rb_nghttp3_connection_writev_stream(sid, Qnil)
       /\ \A s \in StreamIds : Len(pending_data'[s]) <= MaxPending
  \/ \E sid \in StreamIds, n \in 1..(MaxBodyLen + 1) :
       /\ eng.st[sid].wo + n <= MaxBodyLen + 1
       /\ rb_nghttp3_connection_add_write_offset(sid, n, NoFailure)
  \/ \E sid \in StreamIds, n \in 1..(MaxBodyLen + 1) :
       rb_nghttp3_connection_add_ack_offset(sid, n, NoFailure, "return")
  \/ \E sid \in StreamIds : rb_nghttp3_connection_close_stream(sid, "return")
  \/ rb_nghttp3_connection_close

BodySpec == Init /\ [][BodyNext]_vars

\* The error codes of the taxonomy: the thirteen codes with a case of
\* their own in nghttp3_rb_error_class_for_code and the generic fatal one.
ErrorCodes ==
  {NGHTTP3_ERR_INVALID_ARGUMENT, NGHTTP3_ERR_INVALID_STATE,
   NGHTTP3_ERR_WOULDBLOCK, NGHTTP3_ERR_STREAM_IN_USE,
   NGHTTP3_ERR_MALFORMED_HTTP_HEADER, NGHTTP3_ERR_MALFORMED_HTTP_MESSAGING,
   NGHTTP3_ERR_QPACK_FATAL, NGHTTP3_ERR_QPACK_HEADER_TOO_LARGE,
   NGHTTP3_ERR_STREAM_NOT_FOUND, NGHTTP3_ERR_CONN_CLOSING,
   NGHTTP3_ERR_STREAM_DATA_OVERFLOW, NGHTTP3_ERR_FATAL, NGHTTP3_ERR_NOMEM,
   NGHTTP3_ERR_CALLBACK_FAILURE}

\* Calls that raise whatever error the engine reports, with the engine
\* reporting any error of the taxonomy.
ErrorNext ==
  \/ \E sid \in ControlIds : rb_nghttp3_connection_bind_control_stream(sid)
  \/ \E ids \in QpackIds : rb_nghttp3_connection_bind_qpack_streams(ids)
  \/ \E sid \in StreamIds, data \in Strings, f \in ErrorCodes \cup {NoFailure} :
       rb_nghttp3_connection_read_stream(sid, data, f, <<>>, <<>>)
  \/ \E sid \in StreamIds, f \in ErrorCodes \cup {NoFailure} :
       rb_nghttp3_connection_unblock_stream(sid, f)
  \/ \E sid \in StreamIds, f \in ErrorCodes \cup {NoFailure} :
       rb_nghttp3_connection_submit_info(sid, f)
  \/ \E sid \in StreamIds, f \in ErrorCodes \cup {NoFailure} :
       rb_nghttp3_connection_submit_trailers(sid, f)
  \/ \E f \in ErrorCodes \cup {NoFailure} :
       rb_nghttp3_connection_submit_shutdown_notice(f)
  \/ \E f \in ErrorCodes \cup {NoFailure} : rb_nghttp3_connection_shutdown(f)
  \/ rb_nghttp3_connection_close

ErrorSpec == Init /\ [][ErrorNext]_vars

\* The read loop of decode, one iteration per step, with the engine free to
\* answer each call in any way its interface allows.  The headers the loop
\* collects are left out: DecodeLoop has them.
MaxSrcLen == 3
MaxIterations == 4
\* The flags nghttp3_qpack_decoder_read_request can set.
DecodeFlags == SUBSET {"BLOCKED", "EMIT", "FINAL"}
\* Its results for srclen bytes of input: an error, or the number of bytes
\* it consumed of them.
ReadResults(srclen) == {NGHTTP3_ERR_QPACK_FATAL} \cup 0..srclen

\* while (srclen > 0 || fin)
decode_while(d) ==
  [d EXCEPT !.pc = IF d.srclen > 0 \/ d.fin THEN "loop" ELSE "done"]

\* Faulty variant of decode_read: the blocked flag is noted but does not
\* end the loop.  C29 must fail on it.
decode_read_blocked_continues(d, rv, flags) == LET read == [d EXCEPT !.total_consumed = @ + rv, !.srclen = @ - rv, !.iterations = @ + 1] IN IF rv < 0 THEN [d EXCEPT !.pc = "raise", !.iterations = @ + 1] ELSE IF "FINAL" \in flags THEN [read EXCEPT !.pc = "done"] ELSE IF rv = 0 /\ read.srclen = 0 THEN [read EXCEPT !.pc = "done"] ELSE decode_while([read EXCEPT !.blocked = @ \/ "BLOCKED" \in flags])

\* One iteration of the loop, the engine having returned rv and flags.
decode_read(d, rv, flags) ==
  LET read == [d EXCEPT !.total_consumed = @ + rv, !.srclen = @ - rv,
                        !.iterations = @ + 1]
  IN
  IF rv < 0 THEN [d EXCEPT !.pc = "raise", !.iterations = @ + 1]
  ELSE IF "BLOCKED" \in flags THEN [read EXCEPT !.blocked = TRUE, !.pc = "done"]
  ELSE IF "FINAL" \in flags THEN [read EXCEPT !.pc = "done"]
  ELSE IF rv = 0 /\ read.srclen = 0 THEN [read EXCEPT !.pc = "done"]
  ELSE decode_while(read)

\* decode is called with len bytes and reaches its loop.
decode_enter(len, fin) ==
  /\ decoding.pc = "idle"
  /\ decoding' = decode_while([DecodeIdle EXCEPT !.len = len, !.srclen = len,
                                                 !.fin = fin])
  /\ UNCHANGED <<cvars, EncoderObj, DecoderObj, wire, qret, sctx_mem>>

\* The loop calls the engine and deals with its answer.
decode_iteration(rv, flags) ==
  /\ decoding.pc = "loop"
  /\ decoding.iterations < MaxIterations
  /\ rv \in ReadResults(decoding.srclen)
  /\ decoding' = decode_read(decoding, rv, flags)
  /\ UNCHANGED <<cvars, EncoderObj, DecoderObj, wire, qret, sctx_mem>>

\* decode leaves: it raises the engine's error, or returns the result Hash
\* with the consumed count.
decode_leave ==
  /\ decoding.pc \in {"done", "raise"}
  /\ decoding' = DecodeIdle
  /\ IF decoding.pc = "raise"
       THEN nghttp3_rb_raise_qpack("decode", NGHTTP3_ERR_QPACK_FATAL)
       ELSE QpackReturn("decode",
              DecodeResult([blocked |-> decoding.blocked, headers |-> <<>>,
                            total_consumed |-> decoding.total_consumed]))
  /\ UNCHANGED <<cvars, EncoderObj, DecoderObj, wire, sctx_mem>>

DecodeLoopNext ==
  \/ \E len \in 0..MaxSrcLen, fin \in BOOLEAN : decode_enter(len, fin)
  \/ \E rv \in ReadResults(MaxSrcLen), flags \in DecodeFlags :
       decode_iteration(rv, flags)
  \/ decode_leave

DecodeLoopSpec == Init /\ [][DecodeLoopNext]_vars

\* The public calls on the two QPACK objects, made by the caller that
\* carries the bytes between them.
QpackNext ==
  \/ \E sid \in FirstStream, hs \in HeaderLists : CallerEncode(sid, hs)
  \/ \E n \in 0..Len(wire.estream), corrupt \in BOOLEAN, f \in Failures :
       \E partial \in BOOLEAN : CallerReadEncoder(n, corrupt, f, partial)
  \/ \E sid \in FirstStream, fin \in BOOLEAN, f \in Failures :
       \E n \in 0..Len(wire.block[sid]) : CallerDecode(sid, n, fin, f)
  \/ CallerDecoderStreamData
  \/ \E n \in 1..Len(wire.dstream) : CallerReadDecoder(n)
  \/ \E sid \in FirstStream : CallerCancelStream(sid)
  \/ CallerEncoderOption(BlockedLimits \ {SetMax(BlockedLimits)})
  \/ CallerDecoderOption

\* The QPACK objects beside a client connection that is left alone.
QpackInit == Init /\ is_server = FALSE

QpackSpec == QpackInit /\ [][QpackNext]_vars

\* Both streams in use at once, with header lists of one field and whole
\* strings handed over.
QpackStreamsNext ==
  \/ \E sid \in QpackStreamIds, hs \in {l \in HeaderLists : Len(l) = 1} :
       CallerEncode(sid, hs)
  \/ CallerReadEncoder(Len(wire.estream), FALSE, NoFailure, TRUE)
  \/ \E sid \in QpackStreamIds :
       CallerDecode(sid, Len(wire.block[sid]), TRUE, NoFailure)
  \/ CallerDecoderStreamData
  \/ \E n \in 1..Len(wire.dstream) : CallerReadDecoder(n)
  \/ \E sid \in QpackStreamIds : CallerCancelStream(sid)
  \/ CallerEncoderOption(BlockedLimits)

QpackStreamsSpec == QpackInit /\ [][QpackStreamsNext]_vars

\* free_stream_context_i: called for one entry of stream_contexts.  The
\* Hash value, an Integer, is cast to the cursor pointer as it is and the
\* pointer is released.
free_stream_context_i(mem, val) ==
  LET sctx == val IN
  IF sctx # 0 THEN nghttp3_qpack_stream_context_del(mem, sctx) ELSE mem

\* rb_hash_foreach(obj->stream_contexts, free_stream_context_i, Qnil) over
\* the entries for the streams keys.
RECURSIVE free_stream_contexts(_, _)
free_stream_contexts(mem, keys) ==
  IF keys = {} THEN mem
  ELSE LET key == CHOOSE k \in keys : TRUE IN
       free_stream_contexts(free_stream_context_i(mem, mem.ctx_val[key]),
                            keys \ {key})

\* decoder_free: the collector tears the Decoder down.  The cursors still
\* in stream_contexts are released, then the engine's decoder, then the
\* object itself.
decoder_free ==
  /\ ~sctx_mem.freed
  /\ sctx_mem' =
       [free_stream_contexts(sctx_mem,
          {s \in QpackStreamIds : sctx_mem.ctx_val[s] # 0})
        EXCEPT !.freed = TRUE]
  /\ DecoderObj' = [DecoderObj EXCEPT !.decoder = QNULL]
  /\ UNCHANGED <<cvars, decoding, EncoderObj, wire, qret>>

\* The Decoder is reachable: only then can it be called.
DecoderLive == ~sctx_mem.freed

\* Both streams in use as in QpackStreamsNext, until the Decoder is dropped
\* and torn down.
DecoderLifeNext ==
  \/ \E sid \in QpackStreamIds, hs \in {l \in HeaderLists : Len(l) = 1} :
       DecoderLive /\ CallerEncode(sid, hs)
  \/ DecoderLive /\ CallerReadEncoder(Len(wire.estream), FALSE, NoFailure, TRUE)
  \/ \E sid \in QpackStreamIds :
       DecoderLive /\ CallerDecode(sid, Len(wire.block[sid]), TRUE, NoFailure)
  \/ DecoderLive /\ CallerDecoderStreamData
  \/ \E n \in 1..Len(wire.dstream) : DecoderLive /\ CallerReadDecoder(n)
  \/ \E sid \in QpackStreamIds : DecoderLive /\ CallerCancelStream(sid)
  \/ DecoderLive /\ CallerEncoderOption(BlockedLimits)
  \/ decoder_free

DecoderLifeSpec == QpackInit /\ [][DecoderLifeNext]_vars

(* -------------------------------- claims ------------------------------- *)
\* The calls that never reach the engine: close and the three queries.
EngineFree == {"close", "closed?", "server?", "client?"}

\* C1, as stated: after close has been called, every later call of any
\* public operation fails with InvalidState.
C1_AnyCallAfterCloseFails ==
  [][is_closed => ret'.raised = "InvalidStateError"]_vars

\* C1, amended: after close has been called, every later call of any
\* public operation other than close, closed?, server? and client? fails
\* with InvalidState; those four return normally.
C1_EngineCallAfterCloseFails ==
  [][is_closed =>
       /\ ret'.op \notin EngineFree => ret'.raised = "InvalidStateError"
       /\ ret'.op \in EngineFree => ret'.raised = "none"]_vars

\* C1 witness: a data-path call made on a closed connection was rejected.
C1_Witness ==
  /\ is_closed
  /\ conn = NULL
  /\ ret.op = "get_stream_user_data"
  /\ ret.raised = "InvalidStateError"

\* C2: submit_request called on a server-role connection, and
\* submit_response called on a client-role one, fail with InvalidState,
\* register no body source and leave the engine untouched; so each succeeds
\* only on its own role.
C2_RoleChecked ==
  [][(\/ ret'.op = "submit_request" /\ is_server
      \/ ret'.op = "submit_response" /\ ~is_server)
       => /\ ret'.raised = "InvalidStateError"
          /\ stream_data_readers' = stream_data_readers
          /\ eng' = eng]_vars

\* C2 witness: an open server connection with its streams bound rejected a
\* submit_request.
C2_Witness ==
  /\ is_server
  /\ ~is_closed
  /\ eng.ctrl # Unbound
  /\ eng.qpack # Unbound
  /\ ret.op = "submit_request"
  /\ ret.raised = "InvalidStateError"

\* C3: a submit_request or submit_response call that is rejected leaves the
\* connection as it was before the call; a body source registered earlier
\* for the stream is still registered.
C3_RejectedSubmitChangesNothing ==
  [][(ret'.op \in {"submit_request", "submit_response"}
      /\ ret'.raised # "none")
       => UNCHANGED <<conn, is_closed, is_server, stream_data_readers,
                      stream_user_data, pending_data, eng>>]_vars

\* C3 failing input: a client with its streams bound called submit_request
\* for the stream in use, and the body source of the first submit is gone.
C3_FailingInput ==
  /\ ret.op = "submit_request"
  /\ ret.raised = "StreamInUseError"
  /\ eng.st[0].phase = "ready"
  /\ NIL_P(stream_data_readers[0])

\* C4: bind_control_stream and bind_qpack_streams each succeed at most once
\* per connection: called on an open connection whose binding exists
\* already, or after traffic has begun, the call fails with InvalidState
\* and the bindings stay as they were.
C4_BindOnce ==
  [][/\ (ret'.op = "bind_control_stream" /\ ~ConnClosed
         /\ (eng.ctrl # Unbound \/ eng.traffic))
          => (ret'.raised = "InvalidStateError" /\ eng' = eng)
     /\ (ret'.op = "bind_qpack_streams" /\ ~ConnClosed
         /\ (eng.qpack # Unbound \/ eng.traffic))
          => (ret'.raised = "InvalidStateError" /\ eng' = eng)]_vars

\* C4 witness: both bindings exist and a further bind_qpack_streams was
\* rejected on the open connection.
C4_Witness ==
  /\ ~is_closed
  /\ eng.ctrl # Unbound
  /\ eng.qpack # Unbound
  /\ ret.op = "bind_qpack_streams"
  /\ ret.raised = "InvalidStateError"

\* C5: on a client connection on which neither the control stream nor the
\* QPACK streams are bound, submit_request fails with InvalidState.
C5_SubmitBeforeBind ==
  [][(ret'.op = "submit_request" /\ ~is_server
      /\ eng.ctrl = Unbound /\ eng.qpack = Unbound)
       => ret'.raised = "InvalidStateError"]_vars

\* C5 witness: an open client with nothing bound had its submit_request
\* rejected.
C5_Witness ==
  /\ ~is_server
  /\ ~is_closed
  /\ eng.ctrl = Unbound
  /\ eng.qpack = Unbound
  /\ ret.op = "submit_request"
  /\ ret.raised = "InvalidStateError"

\* C6: every stream's ack offset is at most its write offset, and an
\* add_ack_offset call that would acknowledge more bytes than were written
\* fails with InvalidArgument and leaves both offsets as they were.
C6_AckWithinWritten ==
  [][/\ \A s \in StreamIds : eng'.st[s].ao <= eng'.st[s].wo
     /\ \A s \in StreamIds :
          (ret'.op = "add_ack_offset" /\ ~ConnClosed
           /\ eng.st[s].phase # "none"
           /\ eng.st[s].ao + ret'.n > eng.st[s].wo)
            => /\ ret'.raised = "InvalidArgumentError"
               /\ eng'.st[s].ao = eng.st[s].ao
               /\ eng'.st[s].wo = eng.st[s].wo]_vars

\* C6 witness: bytes were written and acknowledged, and a further
\* acknowledgement was rejected.
C6_Witness ==
  /\ ret.op = "add_ack_offset"
  /\ ret.raised = "InvalidArgumentError"
  /\ \E s \in StreamIds : eng.st[s].wo > 0 /\ eng.st[s].ao = eng.st[s].wo

\* Sequence helpers of the claims below.
IsPrefix(a, b) == Len(a) <= Len(b) /\ SubSeq(b, 1, Len(a)) = a
IsSuffix(a, b) ==
  Len(a) <= Len(b) /\ SubSeq(b, Len(b) - Len(a) + 1, Len(b)) = a
RECURSIVE TotalLen(_)
TotalLen(q) == IF q = <<>> THEN 0 ELSE Head(q).len + TotalLen(Tail(q))
\* The chunks of stream s held by the engine that are not acknowledged in
\* full: chunk i ends at offset TotalLen of the first i chunks.
Unacked(s) ==
  {i \in 1..Len(eng.st[s].outq) :
     TotalLen(SubSeq(eng.st[s].outq, 1, i)) > eng.st[s].ao}

\* C7: while the connection is open, the chunks the body source handed to
\* the engine for a stream are the last entries of that stream's pending
\* array, and no call removes or reorders an entry of a pending array; so
\* every chunk handed over is held at least until it is acknowledged.
C7_HandedChunksHeld ==
  [][~is_closed' =>
       \A s \in StreamIds :
         /\ IsPrefix(pending_data[s], pending_data'[s])
         /\ IsSuffix(eng'.st[s].outq, pending_data'[s])]_vars

\* C7 witness: the engine holds a chunk that is not acknowledged in full,
\* a call other than the pull has run since, and the chunk is pending.
C7_Witness ==
  /\ ~is_closed
  /\ ret.op = "add_ack_offset"
  /\ \E s \in StreamIds :
       /\ Unacked(s) # {}
       /\ pending_data[s] # <<>>

\* C8: a chunk is released from its stream's pending array once
\* add_ack_offset has accounted for its full length: the array holds no more
\* entries than the engine holds chunks not acknowledged in full, and is
\* empty once every byte emitted for the stream is acknowledged.
C8_AckedChunksReleased ==
  ~is_closed =>
    \A s \in StreamIds :
      eng.st[s].phase # "none" =>
        Len(pending_data[s]) <= Cardinality(Unacked(s))

\* C9: a pull from a fixed byte buffer hands the whole buffer over as one
\* chunk flagged end-of-data and unregisters the source, so that the next
\* pull finds no source; a pull for a stream without a registered source
\* yields zero bytes flagged end-of-data and changes nothing.
C9_FixedBufferPulledOnce ==
  [][(ret'.op = "writev_stream" /\ ret'.cb.type = "call") =>
       LET s == ret'.cb.stream_id
           reader == stream_data_readers[s]
       IN
       /\ reader.type = "String" =>
            /\ ret'.cb.rv = 1
            /\ ret'.cb.eof
            /\ ret'.cb.vec = reader
            /\ ~ret'.cb.funcall
            /\ NIL_P(stream_data_readers'[s])
            /\ ret'.val.type = "Hash"
            /\ ret'.val.fin
            /\ ret'.val.data.len = reader.len
       /\ NIL_P(reader) =>
            /\ ret'.cb.rv = 0
            /\ ret'.cb.eof
            /\ NIL_P(ret'.cb.vec)
            /\ ~ret'.cb.funcall
            /\ stream_data_readers' = stream_data_readers
            /\ pending_data' = pending_data]_vars

\* C9 witness: a fixed buffer was handed over whole, flagged end-of-data,
\* and its source is unregistered.
C9_Witness ==
  /\ ret.op = "writev_stream"
  /\ ret.cb.type = "call"
  /\ ret.cb.rv = 1
  /\ ret.cb.eof
  /\ ret.cb.vec.type = "String"
  /\ NIL_P(stream_data_readers[ret.cb.stream_id])
  /\ pending_data[ret.cb.stream_id] = <<ret.cb.vec>>

\* C10: a pull from a Proc source calls the Proc; when it answers
\* :wouldblock, writev_stream raises nothing, the pending array and the
\* registered source stay as they were and the stream waits to be resumed;
\* resume_stream makes the stream pullable again with the same source
\* registered; when the Proc answers nil the source is unregistered, and a
\* pull that finds no source calls no Proc.
C10_WouldBlockKeepsSource ==
  [][/\ (ret'.op = "writev_stream" /\ ret'.cb.type = "call") =>
          LET s == ret'.cb.stream_id
              reader == stream_data_readers[s]
          IN
          /\ ret'.cb.funcall <=> reader.type = "Proc"
          /\ ret'.cb.rv = NGHTTP3_ERR_WOULDBLOCK =>
               /\ ret'.raised = "none"
               /\ pending_data' = pending_data
               /\ stream_data_readers' = stream_data_readers
               /\ eng'.st[s].phase = "rdblocked"
          /\ (ret'.cb.funcall /\ ret'.cb.rv = 0) =>
               /\ ret'.cb.eof
               /\ NIL_P(stream_data_readers'[s])
     /\ (ret'.op = "resume_stream" /\ ret'.raised = "none") =>
          /\ stream_data_readers' = stream_data_readers
          /\ \A s \in StreamIds :
               eng.st[s].phase = "rdblocked" => eng'.st[s].phase = "ready"
    ]_vars

\* C10 witness: the Proc answered :wouldblock; nothing was raised, the
\* Proc is still registered and nothing is pending.
C10_Witness ==
  /\ ret.op = "writev_stream"
  /\ ret.raised = "none"
  /\ ret.cb.type = "call"
  /\ ret.cb.rv = NGHTTP3_ERR_WOULDBLOCK
  /\ stream_data_readers[ret.cb.stream_id] = RProc
  /\ pending_data[ret.cb.stream_id] = <<>>
  /\ eng.st[ret.cb.stream_id].phase = "rdblocked"

(* QPACK: helpers of the claims below. *)
\* A decode call for stream s has just returned normally.
DecodeReturned(s) ==
  /\ qret'.op = "decode" /\ qret'.raised = "none"
  /\ wire'.last.stream_id = s
\* The call just made was given at least one byte, or the final flag.
GivenInput == wire'.last.len > 0 \/ wire'.last.fin
\* The required insert count of the header block of stream s: the one its
\* cursor has read, else the one in the prefix still to be handed over.
RequiredCount(s) ==
  LET sctx == DecoderObj.stream_contexts[s] IN
  IF ~NIL_P(sctx) /\ sctx.state # "prefix" THEN sctx.ric
  ELSE IF wire.block[s] # <<>> /\ Head(wire.block[s]).kind = "prefix"
    THEN Head(wire.block[s]).idx
  ELSE 0

Stripped(items) == [i \in 1..Len(items) |-> NV(items[i].name, items[i].value)]

\* C13: a decode call that blocks returns blocked=true and no header list,
\* and the stream's cursor stays registered, blocked; when the insert count
\* has since reached the required count and decode is called again for the
\* stream with the remaining bytes of the block and the final flag, it
\* returns, not blocked, the header list the block was encoded from, each
\* field once and in order.
C13_BlockedThenResumed ==
  [][\A s \in QpackStreamIds :
       DecodeReturned(s) /\ wire.busy[s] =>
         /\ qret'.val.blocked = Qtrue =>
              /\ NIL_P(qret'.val.headers)
              /\ ~NIL_P(DecoderObj'.stream_contexts[s])
              /\ DecoderObj'.stream_contexts[s].state = "blocked"
              /\ wire'.got[s] = wire.got[s]
         /\ ( /\ CursorBlocked(s)
              /\ DecoderObj.stream_contexts[s].ric
                   <= nghttp3_qpack_decoder_get_icnt(DecoderObj.decoder)
              /\ wire'.last.len = Len(wire.block[s]) /\ wire'.last.fin )
            => /\ qret'.val.blocked = Qfalse
               /\ Stripped(wire.got[s] \o qret'.val.headers.items) = wire.sent[s]]_vars

\* A decode call has taken up a blocked cursor and returned the headers of
\* the block.
C13_Witness ==
  /\ qret.op = "decode" /\ qret.raised = "none"
  /\ wire.last.cursor = "blocked" /\ wire.last.fin
  /\ qret.val.blocked = Qfalse
  /\ qret.val.headers.items # <<>>

\* The last call was a decode with the final flag that completed the header
\* block of stream s and tore down its cursor.
CompletedFinal(s) ==
  /\ qret.op = "decode" /\ qret.raised = "none"
  /\ wire.last.stream_id = s /\ wire.last.fin
  /\ NIL_P(DecoderObj.stream_contexts[s])

\* C14: after a decode call with the final flag has completed the header
\* block of a stream and torn down its cursor, a further decode call for
\* the same stream id fails with StreamNotFound or InvalidState (or, when
\* memory runs out first, with NoMem).
C14_DecodeAfterFinalFails ==
  [][\A s \in QpackStreamIds :
       CompletedFinal(s) /\ qret'.op = "decode" /\ wire'.last.stream_id = s
         => qret'.raised \in {"StreamNotFoundError", "InvalidStateError",
                              "NoMemError"}]_vars

\* C15: cancel_stream for a stream id without a decode cursor fails with
\* StreamNotFound and changes nothing: neither object changes, no
\* cancellation instruction is emitted and the bytes in flight stay; so
\* does the second of two cancel_stream calls on one id.
C15_CancelWithoutCursor ==
  [][\A s \in QpackStreamIds :
       ( /\ qret'.op = "cancel_stream" /\ wire'.last.stream_id = s
         /\ NIL_P(DecoderObj.stream_contexts[s]) )
       => /\ qret'.raised = "StreamNotFoundError"
          /\ DecoderObj' = DecoderObj /\ EncoderObj' = EncoderObj
          /\ wire' = Called(wire'.last, wire)]_vars

\* The second of two cancel_stream calls on one id has failed: the
\* cancellation the first one emitted is waiting or in flight, and the call
\* found no cursor.
C15_Witness ==
  /\ qret.op = "cancel_stream" /\ qret.raised = "StreamNotFoundError"
  /\ wire.last.cursor = "none"
  /\ \E s \in QpackStreamIds :
       /\ wire.last.stream_id = s
       /\ \E i \in 1..Len(DecoderObj.decoder.dbuf \o wire.dstream) :
            (DecoderObj.decoder.dbuf \o wire.dstream)[i] = StreamCancel(s)

\* The decoder's insert count, before and after a step.
InsertCount == nghttp3_qpack_decoder_get_icnt(DecoderObj.decoder)
InsertCountAfter == nghttp3_qpack_decoder_get_icnt(DecoderObj'.decoder)

\* C16 as stated: the insert count never decreases, and a read_encoder call
\* that fails does not change it.
C16_FailedReadEncoderKeepsCount ==
  [][/\ InsertCountAfter >= InsertCount
     /\ (qret'.op = "read_encoder" /\ qret'.raised # "none")
          => InsertCountAfter = InsertCount]_vars

\* C16, amended: the insert count never decreases over any call, only
\* read_encoder changes it, insert_count returns it, and a read_encoder
\* call that fails for lack of memory does not change it (one that fails on
\* a malformed instruction may have raised it, never lowered it).
C16_InsertCountNeverDecreases ==
  [][/\ InsertCountAfter >= InsertCount
     /\ qret'.op # "read_encoder" => InsertCountAfter = InsertCount
     /\ (qret'.op = "read_encoder" /\ qret'.raised = "NoMemError")
          => InsertCountAfter = InsertCount
     /\ (qret'.op = "insert_count" /\ qret'.raised = "none")
          => qret'.val = LL2NUM(InsertCount)]_vars

\* A read_encoder call has failed on a malformed instruction with the
\* insert count above zero.
C16_Witness ==
  /\ qret.op = "read_encoder" /\ qret.raised = "QPACKFatalError"
  /\ InsertCount > 0

\* The absolute indices of the entries of a table.
Entries(table) == {table[i].abs : i \in 1..Len(table)}

C18_RoundTrip ==
  [][\A s \in QpackStreamIds :
       ( /\ DecodeReturned(s) /\ wire.busy[s]
         /\ NIL_P(DecoderObj'.stream_contexts[s]) )
       => /\ qret'.val.blocked = Qfalse
          /\ Stripped(wire.got[s] \o qret'.val.headers.items) = wire.sent[s]]_vars

\* One decode call with the final flag has decoded a whole block, prefix
\* and data, of two different headers, one of them taken from the dynamic
\* table.
C18_Witness ==
  /\ qret.op = "decode" /\ qret.raised = "none"
  /\ wire.last.fin /\ wire.last.cursor = "none"
  /\ wire.last.len = 1 + MaxHeaders
  /\ qret.val.blocked = Qfalse
  /\ Len(qret.val.headers.items) >= 2
  /\ qret.val.headers.items[1] # qret.val.headers.items[2]
  /\ DecoderObj.decoder.dbuf # <<>>
  /\ DecoderObj.decoder.dbuf[Len(DecoderObj.decoder.dbuf)] =
       SectionAck(wire.last.stream_id)

\* What num_blocked_streams reports, before and after a step.
NumBlocked == nghttp3_qpack_encoder_get_num_blocked_streams(EncoderObj.encoder)
NumBlockedAfter == nghttp3_qpack_encoder_get_num_blocked_streams(EncoderObj'.encoder)
\* Stream s has no header block under way and no acknowledgement or
\* cancellation on its way to the encoder.
Settled(s) ==
  /\ ~wire.busy[s]
  /\ ~Mentions(DecoderObj.decoder.dbuf \o wire.dstream, s)

FatalClasses ==
  {"QPACKFatalError", "NoMemError", "CallbackFailureError", "FatalError"}

\* C20: when the last operation on a connection failed with an error of a
\* fatal class, the next operation on it, unless it is close, fails with
\* InvalidState.
C20_FatalThenInvalidState ==
  [][(ret.raised \in FatalClasses /\ ret'.op # "close")
       => ret'.raised = "InvalidStateError"]_vars

\* C27: when close_stream succeeds for a stream, the stream's registry entry
\* is destroyed: its body source, its pending-output buffer and its user
\* data are no longer held, so get_stream_user_data gives nil afterwards.
C27_CloseStreamDropsEntry ==
  [][\A s \in StreamIds :
       (ret'.op = "close_stream" /\ ret'.raised = "none"
          /\ eng.st[s].phase # "none" /\ eng'.st[s].phase = "none")
       => /\ NIL_P(stream_user_data'[s])
          /\ NIL_P(stream_data_readers'[s])
          /\ pending_data'[s] = <<>>]_vars

\* The operations during which the engine reports events.
C21_EventOps == {"read_stream", "add_ack_offset", "close_stream"}
\* The handler registered for each event type.
C21_Own ==
  [recv_data |-> "on_recv_data", end_stream |-> "on_end_stream",
   acked_stream_data |-> "on_acked_stream_data",
   stream_close |-> "on_stream_close"]
\* The handlers that are set for the events, in the order of the events.
C21_Registered(events) ==
  LET set == SelectSeq(events,
                       LAMBDA e : ~NIL_P(callbacks)
                                  /\ ~NIL_P(callbacks[C21_Own[e]]))
  IN [i \in 1..Len(set) |-> C21_Own[set[i]]]

\* C21: every event is optional.  The application code run by an operation
\* is exactly the handlers that are set for the events it reported, each
\* for its own event type and in the order of the events: nothing runs
\* when the connection has no Callbacks object or the handler of the event
\* is unset.  When no handler runs, the operation that reported events
\* completes normally and leaves the connection open.
C21_EventsOptional ==
  [][(Live' /\ callbacks' = callbacks /\ ret'.op \in C21_EventOps)
       => /\ app'.invoked = C21_Registered(app'.events)
          /\ (app'.invoked = <<>> /\ app'.events # <<>>)
               => /\ ret'.raised = "none"
                  /\ is_closed' = is_closed
                  /\ conn_mem' = conn_mem]_vars

\* read_stream reported recv_data, whose handler is unset, and went on to
\* end_stream, whose handler ran.
C21_Witness ==
  /\ ret.op = "read_stream"
  /\ ret.raised = "none"
  /\ app.events = <<"recv_data", "end_stream">>
  /\ app.invoked = <<"on_end_stream">>
  /\ ~NIL_P(callbacks)
  /\ NIL_P(callbacks.on_recv_data)

\* C22: calling close from inside a handler is well-defined: the operation
\* that reported the event never goes on using a connection that has
\* already been released.
C22_NoUseAfterRelease == ~conn_mem.stale_use

\* C23: when a handler terminates abnormally during an engine operation,
\* the operation fails with CallbackFailure.
C23_HandlerFailureIsCallbackFailure ==
  app.aborted
    => ret.raised = nghttp3_rb_error_class_for_code(NGHTTP3_ERR_CALLBACK_FAILURE)

\* C24: a String body has copy-on-submit semantics: whatever the caller
\* does to its String after the submit call returned, the chunk that
\* writev_stream emits for the stream holds the bytes that were submitted.
C24_EmitsSubmittedBytes ==
  (ret.op = "writev_stream" /\ ret.raised = "none" /\ ret.cb.type = "call"
     /\ ~ret.cb.funcall /\ ret.cb.rv = 1)
    => /\ ret.cb.vec \in Strings
       /\ ret.val.data \in Strings

\* The error class of each kind of the taxonomy, and the code of the kind.
C25_Kinds ==
  [InvalidArgumentError |-> NGHTTP3_ERR_INVALID_ARGUMENT,
   InvalidStateError |-> NGHTTP3_ERR_INVALID_STATE,
   WouldBlockError |-> NGHTTP3_ERR_WOULDBLOCK,
   StreamInUseError |-> NGHTTP3_ERR_STREAM_IN_USE,
   StreamNotFoundError |-> NGHTTP3_ERR_STREAM_NOT_FOUND,
   MalformedHTTPHeaderError |-> NGHTTP3_ERR_MALFORMED_HTTP_HEADER,
   MalformedHTTPMessagingError |-> NGHTTP3_ERR_MALFORMED_HTTP_MESSAGING,
   QPACKFatalError |-> NGHTTP3_ERR_QPACK_FATAL,
   QPACKHeaderTooLargeError |-> NGHTTP3_ERR_QPACK_HEADER_TOO_LARGE,
   ConnClosingError |-> NGHTTP3_ERR_CONN_CLOSING,
   StreamDataOverflowError |-> NGHTTP3_ERR_STREAM_DATA_OVERFLOW,
   NoMemError |-> NGHTTP3_ERR_NOMEM,
   CallbackFailureError |-> NGHTTP3_ERR_CALLBACK_FAILURE,
   FatalError |-> NGHTTP3_ERR_FATAL]

C26_Registered(mem) == {s \in QpackStreamIds : mem.ctx_val[s] # 0}

\* C26: the decoder holds at most one decode cursor per stream id.  Each
\* registered stream has a live cursor of its own and no other cursor is
\* live.  A decode call for a stream without a cursor creates one, a decode
\* call for a stream with a cursor works on that same cursor; the cursor is
\* gone after the call exactly when the call completed the header block or
\* was cancel_stream; and no call creates, replaces, advances or removes
\* the cursor of a stream other than the one it was made for.
C26_OneCursorPerStream ==
  [][/\ \A s \in QpackStreamIds :
          NIL_P(DecoderObj'.stream_contexts[s]) <=> sctx_mem'.ctx_val[s] = 0
     /\ sctx_mem'.live =
          {NUM2ULL(sctx_mem'.ctx_val[s]) : s \in C26_Registered(sctx_mem')}
     /\ Cardinality(sctx_mem'.live) = Cardinality(C26_Registered(sctx_mem'))
     /\ \A s \in QpackStreamIds :
          LET had == sctx_mem.ctx_val[s]
              has == sctx_mem'.ctx_val[s]
              called == wire'.last.stream_id = s
              completed == /\ qret'.raised = "none"
                           /\ qret'.val.blocked = Qfalse
                           /\ wire'.last.fin
          IN
          IF called /\ qret'.op = "decode"
            THEN /\ (had # 0 /\ has # 0) => has = had
                 /\ (had = 0 /\ has # 0) => NUM2ULL(has) \notin sctx_mem.live
                 /\ has = 0 <=> completed
          ELSE IF called /\ qret'.op = "cancel_stream"
            THEN has = 0
          ELSE /\ has = had
               /\ DecoderObj'.stream_contexts[s] = DecoderObj.stream_contexts[s]
    ]_vars

\* Both streams have a cursor, and the latest call was a decode that went
\* on with the cursor its stream already had.
C26_Witness ==
  /\ C26_Registered(sctx_mem) = QpackStreamIds
  /\ qret.op = "decode"
  /\ wire.last.cursor # "none"

\* C28: the engine connection is released at most once.  The first close
\* releases it and marks the connection closed; a later close returns
\* normally and releases nothing; teardown releases it only if the
\* connection was never closed; closed? reports the mark, which never goes
\* from true back to false.
C28_ReleasedAtMostOnce ==
  [][/\ conn_mem'.dels <= 1
     /\ is_closed => is_closed'
     /\ (ret'.op = "close" /\ conn_mem'.freed = conn_mem.freed)
          => /\ ret'.raised = "none"
             /\ is_closed'
             /\ conn_mem'.dels = conn_mem.dels + (IF is_closed THEN 0 ELSE 1)
     /\ (conn_mem'.freed /\ ~conn_mem.freed)
          => conn_mem'.dels = conn_mem.dels + (IF is_closed THEN 0 ELSE 1)
     /\ (ret'.op = "closed?" /\ ret' # ret)
          => ret'.val = (IF is_closed THEN Qtrue ELSE Qfalse)
    ]_vars

\* The connection was closed and then torn down: the engine was released
\* once, by close.
C28_Witness ==
  /\ conn_mem.freed
  /\ is_closed
  /\ conn_mem.dels = 1
  /\ ret.op = "close"

\* A step of the read loop: one call of the engine and what the loop made
\* of its answer.
C29_Iteration == decoding'.iterations = decoding.iterations + 1
\* The bytes are accounted for: those consumed so far and those left make
\* up the data passed in.
C29_Accounted(d) ==
  /\ d.total_consumed + d.srclen = d.len
  /\ d.total_consumed >= 0
  /\ d.total_consumed <= d.len
\* decode returned its result Hash.
C29_Returned ==
  decoding.pc = "done" /\ decoding'.pc = "idle" /\ qret'.raised = "none"

C30_CursorsReleasedOnce ==
  /\ sctx_mem.wild = {}
  /\ \A s \in QpackStreamIds :
       (~sctx_mem.freed /\ sctx_mem.ctx_val[s] # 0)
         => NUM2ULL(sctx_mem.ctx_val[s]) \in sctx_mem.live
  /\ sctx_mem.freed => sctx_mem.live = {}

====
